---- MODULE Spec2Model ----
(***************************************************************************)
(* Reflexion orchestration engine: the act -> observe -> reflect loop of   *)
(* ReflexionOrchestrator.run, the History Store (ContextManager), the      *)
(* Decision Maker (ExecutorAgent) and the Reflector.                       *)
(*                                                                         *)
(* Texts.  A Python str is a sequence of atoms; the atom " " and the atom  *)
(* "\n" are whitespace.  `kw in text` is contiguous-subsequence search and *)
(* `a + b` is \o.  Chinese literals of the source are written as ASCII     *)
(* atoms and listed next to the definition that uses them.                 *)
(***************************************************************************)
EXTENDS Integers, Sequences, FiniteSets, TLC

(***************************************************************************)
(* Bounds of the model.                                                    *)
(***************************************************************************)
MaxStepsBound == 4
MaxHistoryBound == 3
MaxThreshold == 2
MaxRuns == 2
\* Direct calls of the library: stored custom entries, recorded usages.
MaxEntries == 2
MaxLibUsage == 1
\* Usages recorded on one entry.
MaxUsage == 10
MaxCalls == 3

(***************************************************************************)
(* Python values.                                                          *)
(***************************************************************************)
\* None in a position that otherwise holds a str; no text carries this atom.
None == <<"<None>">>
\* None, an unhashable value (a JSON array) and a missing key, in a position
\* that otherwise holds a tool name or a JSON scalar.
NullName == "<null>"
ListName == "<list>"
Absent == "<absent>"
\* A tool output that is not a str (an int, say): truthy, without .lower().
NonText == <<"<int>">>
EmptyText == << >>
\* A dict result without the key "output".
NoOutputKey == <<"<absent>">>

Max(a, b) == IF a >= b THEN a ELSE b
Min(a, b) == IF a <= b THEN a ELSE b

\* seq[k:] of Python, for any integer k (a negative k counts from the end).
PySliceFrom(s, k) ==
  LET start == IF k < 0 THEN Max(Len(s) + k, 0) ELSE Min(k, Len(s))
  IN SubSeq(s, start + 1, Len(s))

\* str.lower(), atom by atom.
LowerAtom(a) ==
  CASE a = "FINAL" -> "final"
    [] a = "Search" -> "search"
    [] a = "Task" -> "task"
    [] a = "Retry" -> "retry"
    [] a = "Error" -> "error"
    [] a = "X" -> "x"
    [] a = "Cannot" -> "cannot"
    [] a = "Timeout" -> "timeout"
    [] a = "Calc" -> "calc"
    [] a = "Final" -> "final"
    [] a = "Pass" -> "pass"
    [] OTHER -> a

Lower(t) == [i \in 1..Len(t) |-> LowerAtom(t[i])]

\* kw in t
Contains(t, kw) ==
  \E i \in 0..(Len(t) - Len(kw)) : SubSeq(t, i + 1, i + Len(kw)) = kw

ContainsAny(t, kws) == \E kw \in kws : Contains(t, kw)

\* f"{tool_name}"
Format(name) == IF name = NullName THEN "None" ELSE name

(***************************************************************************)
(* Reflector.should_continue (reflector.py 166-207).                       *)
(***************************************************************************)
\* "任务完成", "成功完成", "已完成", "目标达成", "task completed",
\* "successfully completed"
stop_keywords ==
  { <<"zh_task", "zh_complete">>, <<"zh_success", "zh_complete">>,
    <<"zh_already", "zh_complete">>, <<"zh_goal", "zh_reached">>,
    <<"task", " ", "completed">>, <<"successfully", " ", "completed">> }

\* "继续", "重试", "改进", "修正", "需要", "continue", "retry", "improve", "fix"
continue_keywords ==
  { <<"zh_continue">>, <<"zh_retry">>, <<"zh_improve">>, <<"zh_correct">>,
    <<"zh_need">>, <<"continue">>, <<"retry">>, <<"improve">>, <<"fix">> }

\* No word of the observation counts as an error indicator.
no_error_indicators == {}

\* "error", "错误", "失败", "exception", "failed"
error_indicators ==
  { <<"error">>, <<"zh_error">>, <<"zh_fail">>, <<"exception">>, <<"failed">> }

\* observation.lower() raises AttributeError on a value that is not a str.
ShouldContinueRaises(reflection, observation) == observation = NonText

\* The continuation keywords tested before the completion keywords.
should_continue_retry_first(reflection, observation) ==
  LET reflection_lower == Lower(reflection)
      observation_lower == Lower(observation)
  IN IF ContainsAny(reflection_lower, continue_keywords) THEN TRUE
     ELSE IF ContainsAny(reflection_lower, stop_keywords)
          \/ ContainsAny(observation_lower, stop_keywords) THEN FALSE
     ELSE IF ContainsAny(observation_lower, error_indicators) THEN TRUE
     ELSE FALSE

should_continue(reflection, observation) ==
  LET reflection_lower == Lower(reflection)
      observation_lower == Lower(observation)
  IN IF ContainsAny(reflection_lower, stop_keywords)
          \/ ContainsAny(observation_lower, stop_keywords) THEN FALSE
     ELSE IF ContainsAny(reflection_lower, continue_keywords) THEN TRUE
     ELSE IF ContainsAny(observation_lower, error_indicators) THEN TRUE
     ELSE FALSE

(***************************************************************************)
(* ReflectionEntry (reflection_library.py 23-81).                          *)
(*                                                                         *)
(* A success rate is kept as the exact decimal whole.frac, frac being the  *)
(* digits after the point without trailing zeros: n updates of the moving  *)
(* average from 0 give a number of at most n decimals.                     *)
(***************************************************************************)
Rate(whole, frac) == [whole |-> whole, frac |-> frac]

\* success_rate: float = 0.0 (line 31)
ZeroRate == Rate(0, << >>)

RECURSIVE StripZeros(_)
StripZeros(frac) ==
  IF frac # << >> /\ frac[Len(frac)] = 0
    THEN StripZeros(SubSeq(frac, 1, Len(frac) - 1))
    ELSE frac

\* The digits frac times the digit k: the carry out and the digits.
RECURSIVE MulDigits(_, _)
MulDigits(frac, k) ==
  IF frac = << >> THEN [carry |-> 0, frac |-> << >>]
  ELSE LET rest == MulDigits(Tail(frac), k)
           v == Head(frac) * k + rest.carry
       IN [carry |-> v \div 10, frac |-> <<v % 10>> \o rest.frac]

\* rate * (k / 10)
TimesTenths(rate, k) ==
  LET m == MulDigits(rate.frac, k)
      w == rate.whole * k + m.carry
  IN Rate(w \div 10, StripZeros(<<w % 10>> \o m.frac))

\* rate + a / 10
PlusTenths(rate, a) ==
  LET d == IF rate.frac = << >> THEN 0 ELSE Head(rate.frac)
      rest == IF rate.frac = << >> THEN << >> ELSE Tail(rate.frac)
      v == d + a
  IN Rate(rate.whole + v \div 10, StripZeros(<<v % 10>> \o rest))

\* The i-th decimal of a rate.
Digit(rate, i) == IF i <= Len(rate.frac) THEN rate.frac[i] ELSE 0

\* a < b on rates
RateLess(a, b) ==
  \/ a.whole < b.whole
  \/ /\ a.whole = b.whole
     /\ \E i \in 1..Max(Len(a.frac), Len(b.frac)) :
          /\ Digit(a, i) < Digit(b, i)
          /\ \A j \in 1..(i - 1) : Digit(a, j) = Digit(b, j)

\* alpha = 0.3 (line 79), in tenths.
alpha == 3

\* The success flag read the wrong way round.
current_rate_inverted(success) == IF success THEN 0 ELSE 1

\* line 80: current_rate = 1.0 if success else 0.0
current_rate(success) == IF success THEN 1 ELSE 0

\* The old rate carried over whole.
undecayed(rate) == rate

\* line 81: (1 - alpha) * self.success_rate
decayed(rate) == TimesTenths(rate, 10 - alpha)

\* record_usage(success), lines 68-81
record_usage(entry, success) ==
  [entry EXCEPT !.usage_count = @ + 1,
                !.success_rate = PlusTenths(decayed(@),
                                            alpha * current_rate(success))]

\* ReflectionEntry(id=..., ...) with the defaults of lines 31-32.
ReflectionEntry(id, error_pattern, error_type, reflection, suggested_actions) ==
  [id |-> id, error_pattern |-> error_pattern, error_type |-> error_type,
   reflection |-> reflection, suggested_actions |-> suggested_actions,
   success_rate |-> ZeroRate, usage_count |-> 0]

(***************************************************************************)
(* ReflectionLibrary.find_reflection (reflection_library.py 221-262).      *)
(***************************************************************************)
\* The built-in entries pred_001 .. pred_005, in list order.  Of their
\* Chinese texts only "重试操作" (pred_004) carries a keyword of
\* should_continue; the other texts are one atom each.
PredefinedReflections ==
  << [id |-> <<"pred_001">>, error_pattern |-> <<"json", " ", "decode">>,
      error_type |-> "parameter_error",
      reflection |-> <<"zh_json_parse_text">>,
      suggested_actions |-> << <<"zh_check_quotes">>, <<"zh_validate_json">>,
                               <<"zh_simpler_string">> >>,
      success_rate |-> ZeroRate, usage_count |-> 0],
     [id |-> <<"pred_002">>, error_pattern |-> <<"key", " ", "error">>,
      error_type |-> "parameter_error",
      reflection |-> <<"zh_key_missing_text">>,
      suggested_actions |-> << <<"zh_check_param_name">>, <<"zh_see_tool_params">>,
                               <<"zh_use_get">> >>,
      success_rate |-> ZeroRate, usage_count |-> 0],
     [id |-> <<"pred_003">>, error_pattern |-> <<"permission", " ", "denied">>,
      error_type |-> "permission_error",
      reflection |-> <<"zh_no_permission_text">>,
      suggested_actions |-> << <<"zh_check_permissions">>, <<"zh_run_as_admin">>,
                               <<"zh_other_path">> >>,
      success_rate |-> ZeroRate, usage_count |-> 0],
     [id |-> <<"pred_004">>, error_pattern |-> <<"timeout">>,
      error_type |-> "timeout_error",
      reflection |-> <<"zh_operation_timed_out_text">>,
      suggested_actions |-> << <<"zh_increase_timeout">>, <<"zh_check_network">>,
                               <<"zh_retry", "zh_operation">> >>,
      success_rate |-> ZeroRate, usage_count |-> 0],
     [id |-> <<"pred_005">>, error_pattern |-> <<"argument">>,
      error_type |-> "parameter_error",
      reflection |-> <<"zh_bad_argument_text">>,
      suggested_actions |-> << <<"zh_check_types">>, <<"zh_check_required">>,
                               <<"zh_see_signature">> >>,
      success_rate |-> ZeroRate, usage_count |-> 0] >>

\* str.split(): the maximal runs of atoms between whitespace atoms.
Whitespace == {" ", "\n"}

RECURSIVE SplitFrom(_, _, _)
SplitFrom(t, i, word) ==
  IF i > Len(t) THEN (IF word = << >> THEN {} ELSE {word})
  ELSE IF t[i] \in Whitespace
       THEN (IF word = << >> THEN {} ELSE {word}) \cup SplitFrom(t, i + 1, << >>)
       ELSE SplitFrom(t, i + 1, Append(word, t[i]))

\* set(text.lower().split())
WordSet(t) == SplitFrom(Lower(t), 1, << >>)

\* The threshold taken as exclusive.
SimilarityAbove(text1, text2, threshold100) ==
  LET words1 == WordSet(text1)
      words2 == WordSet(text2)
  IN IF words1 = {} \/ words2 = {} THEN 0 > threshold100
     ELSE 100 * Cardinality(words1 \cap words2)
            > threshold100 * Cardinality(words1 \cup words2)

\* _calculate_similarity(text1, text2) >= threshold, the threshold given in
\* hundredths (0.7 is 70): len(intersection) / len(union) >= threshold.
SimilarityAtLeast(text1, text2, threshold100) ==
  LET words1 == WordSet(text1)
      words2 == WordSet(text2)
  IN IF words1 = {} \/ words2 = {} THEN 0 >= threshold100
     ELSE 100 * Cardinality(words1 \cap words2)
            >= threshold100 * Cardinality(words1 \cup words2)

\* sim(a) > sim(b), by cross multiplication.
SimilarityGreater(msg, a, b) ==
  LET wm == WordSet(msg)
      wa == WordSet(a)
      wb == WordSet(b)
      na == IF wm = {} \/ wa = {} THEN 0 ELSE Cardinality(wm \cap wa)
      da == IF wm = {} \/ wa = {} THEN 1 ELSE Cardinality(wm \cup wa)
      nb == IF wm = {} \/ wb = {} THEN 0 ELSE Cardinality(wm \cap wb)
      db == IF wm = {} \/ wb = {} THEN 1 ELSE Cardinality(wm \cup wb)
  IN na * db > nb * da

similarity_threshold == 70

NoEntry == [id |-> <<"<none>">>, error_pattern |-> << >>, error_type |-> "<none>",
            reflection |-> << >>, suggested_actions |-> << >>,
            success_rate |-> ZeroRate, usage_count |-> 0]

\* error_type=None
NoType == "<none>"

\* The last of the matching built-in entries.
LastHit(hits) == CHOOSE i \in hits : \A j \in hits : i >= j

\* lines 236-239: the loop returns at the first matching built-in entry.
FirstHit(hits) == CHOOSE i \in hits : \A j \in hits : i <= j

\* find_reflection(error_message, error_type) on a library whose built-in
\* entries are the list `predefined` (self._predefined_reflections) and
\* whose stored entries are the sequence `reflections` (dict insertion
\* order).  The stable descending sort returns the first entry of maximal
\* similarity.
find_reflection_in(predefined, reflections, error_message, error_type) ==
  LET seedHits == {i \in 1..Len(predefined) :
                     /\ Contains(Lower(error_message),
                                 Lower(predefined[i].error_pattern))
                     /\ \/ error_type = NoType
                        \/ predefined[i].error_type = error_type}
      candidates == {i \in 1..Len(reflections) :
                       /\ \/ error_type = NoType
                          \/ reflections[i].error_type = error_type
                       /\ SimilarityAtLeast(error_message,
                                            reflections[i].error_pattern,
                                            similarity_threshold)}
      best == CHOOSE i \in candidates :
                \A j \in candidates :
                  /\ ~SimilarityGreater(error_message,
                                        reflections[j].error_pattern,
                                        reflections[i].error_pattern)
                  /\ (j < i => SimilarityGreater(error_message,
                                                 reflections[i].error_pattern,
                                                 reflections[j].error_pattern))
  IN IF seedHits # {} THEN predefined[FirstHit(seedHits)]
     ELSE IF candidates # {} THEN reflections[best]
     ELSE NoEntry

\* find_reflection on a library whose built-in entries were never used.
find_reflection_typed(reflections, error_message, error_type) ==
  find_reflection_in(PredefinedReflections, reflections, error_message,
                     error_type)

\* find_reflection(error_message), error_type left at its default.
find_reflection(reflections, error_message) ==
  find_reflection_typed(reflections, error_message, NoType)

(***************************************************************************)
(* ReflectionLibrary.add_reflection, update_reflection                     *)
(* (reflection_library.py 182-219, 292-315).                               *)
(***************************************************************************)
\* _generate_id: the digest of f"{error_pattern}:{reflection}", given by the
\* text it is computed from.
_generate_id(error_pattern, reflection) ==
  error_pattern \o <<":">> \o reflection

\* entry_id in self.reflections
Stored(reflections, entry_id) ==
  \E i \in 1..Len(reflections) : reflections[i].id = entry_id

\* self.reflections[entry_id]
EntryOf(reflections, entry_id) ==
  reflections[CHOOSE i \in 1..Len(reflections) : reflections[i].id = entry_id]

\* The entries kept in a list: every call appends.
add_reflection_appending(reflections, error_pattern, error_type, reflection, suggested_actions) ==
  Append(reflections,
         ReflectionEntry(_generate_id(error_pattern, reflection),
                         error_pattern, error_type, reflection,
                         suggested_actions))

\* lines 203-214: self.reflections[entry_id] = entry, a new key going to the
\* end of the dict and an existing key keeping its place.
add_reflection(reflections, error_pattern, error_type, reflection, suggested_actions) ==
  LET entry_id == _generate_id(error_pattern, reflection)
      entry == ReflectionEntry(entry_id, error_pattern, error_type,
                               reflection, suggested_actions)
  IN IF Stored(reflections, entry_id)
       THEN [i \in 1..Len(reflections) |->
               IF reflections[i].id = entry_id THEN entry ELSE reflections[i]]
       ELSE Append(reflections, entry)

\* lines 307-308: self.reflections[entry_id].record_usage(success)
update_reflection(reflections, entry_id, success) ==
  [i \in 1..Len(reflections) |->
     IF reflections[i].id = entry_id
       THEN record_usage(reflections[i], success)
       ELSE reflections[i]]

\* The removal test with the rate bound taken as inclusive.
LowQualityInclusive(entry, min_usage, max_success_rate) ==
  /\ entry.usage_count >= min_usage
  /\ ~RateLess(max_success_rate, entry.success_rate)

\* line 330: the test that puts an entry on the removal list.
LowQuality(entry, min_usage, max_success_rate) ==
  /\ entry.usage_count >= min_usage
  /\ RateLess(entry.success_rate, max_success_rate)

\* lines 327-334 of cleanup_low_quality: the entries left in the dict.
cleanup_low_quality(reflections, min_usage, max_success_rate) ==
  SelectSeq(reflections,
            LAMBDA entry : ~LowQuality(entry, min_usage, max_success_rate))

\* ReflectionEntry.to_dict (lines 36-49), the keys the model carries.
to_dict(entry) ==
  [id |-> entry.id, error_pattern |-> entry.error_pattern,
   error_type |-> entry.error_type, reflection |-> entry.reflection,
   suggested_actions |-> entry.suggested_actions,
   success_rate |-> entry.success_rate, usage_count |-> entry.usage_count]

\* ReflectionEntry.from_dict (lines 51-66): success_rate and usage_count
\* are read with data.get and a default.
from_dict(data) ==
  [id |-> data.id, error_pattern |-> data.error_pattern,
   error_type |-> data.error_type, reflection |-> data.reflection,
   suggested_actions |-> data.suggested_actions,
   success_rate |-> IF "success_rate" \in DOMAIN data
                      THEN data.success_rate ELSE ZeroRate,
   usage_count |-> IF "usage_count" \in DOMAIN data
                     THEN data.usage_count ELSE 0]

\* lines 369-375 of save: the document written, one (key, dict) pair per
\* stored entry in dict order.
ReflectionsDocument(reflections) ==
  [i \in 1..Len(reflections) |->
     [key |-> reflections[i].id, value |-> to_dict(reflections[i])]]

\* lines 395-398 of load: the dict rebuilt from the document.
ReflectionsOf(document) ==
  [i \in 1..Len(document) |-> from_dict(document[i].value)]

\* ", ".join(suggested_actions)
RECURSIVE Join(_)
Join(texts) ==
  IF texts = << >> THEN << >>
  ELSE IF Len(texts) = 1 THEN texts[1]
  ELSE texts[1] \o <<",", " ">> \o Join(Tail(texts))

\* bool(self.reflection_library): a library object is truthy when its __len__
\* (the number of stored entries) is not 0; None is falsy.
LibraryTruthy(library) == library.present /\ Len(library.reflections) > 0

\* The library consulted for every step, failed or not.
AugmentReflectionAlways(library, reflection, success, error_message) ==
  IF ~LibraryTruthy(library) THEN reflection
  ELSE LET library_reflection == find_reflection(library.reflections, error_message)
       IN IF library_reflection = NoEntry THEN reflection
          ELSE reflection
                 \o <<"\n", "\n", "zh_history_advice", ":", " ">>
                 \o library_reflection.reflection
                 \o <<"\n", "zh_suggested_action", ":", " ">>
                 \o Join(library_reflection.suggested_actions)

\* orchestrator.py 198-207: the reflection text after the library lookup.
\* "\n\n历史建议: " and "\n建议行动: "
AugmentReflection(library, reflection, success, error_message) ==
  IF ~LibraryTruthy(library) \/ success THEN reflection
  ELSE LET library_reflection == find_reflection(library.reflections, error_message)
       IN IF library_reflection = NoEntry THEN reflection
          ELSE reflection
                 \o <<"\n", "\n", "zh_history_advice", ":", " ">>
                 \o library_reflection.reflection
                 \o <<"\n", "zh_suggested_action", ":", " ">>
                 \o Join(library_reflection.suggested_actions)

(***************************************************************************)
(* ExecutorAgent._parse_decision (executor.py 262-309).                    *)
(*                                                                         *)
(* An oracle response is given by what the parser reads of it:             *)
(*   fence  - the text contains ```                                        *)
(*   block  - what json.loads makes of the first fenced block, NoBlock     *)
(*            when the regular expression finds none                       *)
(*   body   - what json.loads makes of the whole stripped text             *)
(*   text   - the atoms of the text, for the keyword fallback              *)
(* A JSON document is Malformed (JSONDecodeError) or a value: an object    *)
(* with its three keys (Absent when the key is missing), or a value that   *)
(* is not an object.                                                       *)
(***************************************************************************)
JsonObject(action_type, tool_name, tool_input) ==
  [t |-> "object", action_type |-> action_type, tool_name |-> tool_name,
   tool_input |-> tool_input]

JsonOther(t) ==
  [t |-> t, action_type |-> Absent, tool_name |-> Absent, tool_input |-> Absent]

Malformed == JsonOther("malformed")
NoBlock == JsonOther("no block")

\* lines 267-276: the string handed to json.loads.
JsonStr(response) ==
  IF response.fence /\ response.block # NoBlock THEN response.block
  ELSE response.body

\* dict.get(key, default)
Get(value, default) == IF value = Absent THEN default ELSE value

Decision(action_type, tool_name, tool_input) ==
  [action_type |-> action_type, tool_name |-> tool_name,
   tool_input |-> tool_input]

\* The parser raised: decision.get on a value that is not a dict.
Raised == Decision("<raise AttributeError>", NullName, NullName)
NoDecision == Decision("<none>", NullName, NullName)

\* The fallback looking for a tool name before it looks for "final".
FallbackToolFirst(response, tools) ==
  LET response_lower == Lower(response.text)
      matches == {i \in 1..Len(tools) :
                    Contains(response_lower, Lower(<<tools[i]>>))}
  IN IF matches # {}
       THEN Decision("tool_call",
                     tools[CHOOSE i \in matches : \A j \in matches : i <= j],
                     "{}")
     ELSE Decision("final_answer", NullName, NullName)

\* lines 291-309: the keyword fallback over the catalog `tools` (dict order).
FallbackDecision(response, tools) ==
  LET response_lower == Lower(response.text)
      matches == {i \in 1..Len(tools) :
                    Contains(response_lower, Lower(<<tools[i]>>))}
  IN IF Contains(response_lower, <<"final", "_answer">>)
          \/ Contains(response_lower, <<"final">>)
       THEN Decision("final_answer", NullName, NullName)
     ELSE IF matches # {}
       THEN Decision("tool_call",
                     tools[CHOOSE i \in matches : \A j \in matches : i <= j],
                     "{}")
     ELSE Decision("final_answer", NullName, NullName)

_parse_decision(response, tools) ==
  LET decision == JsonStr(response)
  IN IF decision = Malformed THEN FallbackDecision(response, tools)
     ELSE IF decision.t # "object" THEN Raised
     ELSE IF Get(decision.action_type, "tool_call") = "final_answer"
       THEN Decision("final_answer", NullName, NullName)
     ELSE Decision("tool_call", Get(decision.tool_name, NullName),
                   Get(decision.tool_input, "{}"))

(***************************************************************************)
(* ExecutorAgent.execute_tool (executor.py 152-211).                       *)
(***************************************************************************)
ExecutionResult(success, output, error, tool_used) ==
  [success |-> success, output |-> output, error |-> error,
   tool_used |-> tool_used]

NoResult == ExecutionResult(FALSE, None, None, NullName)
\* `tool_name not in self.tools` raised TypeError: unhashable type.
LookupRaised == ExecutionResult(FALSE, None, <<"<raise TypeError>">>, NullName)

InCatalog(tool_name, tools) == \E i \in 1..Len(tools) : tools[i] = tool_name

\* f"工具 '{tool_name}' 不存在"
ToolNotFoundText(tool_name) ==
  <<"zh_tool", " ", "'", Format(tool_name), "'", " ", "zh_not_exist">>

\* f"工具执行错误: {str(e)}"
ToolErrorText(e) == <<"zh_tool", "zh_exec", "zh_error", ":", " ">> \o e

\* lines 184-189: the output taken from what the tool returned.
\* A result is a dict (with or without the key "output"), an object with a
\* content attribute, or anything else; repr is str(result).
ToolOutput(result) ==
  IF result.shape = "dict" THEN
    (IF result.output # NoOutputKey THEN result.output ELSE result.repr)
  ELSE IF result.shape = "content" THEN result.output
  ELSE result.repr

\* execute_tool given what the tool does when it is invoked:
\* outcome.raises with the message str(e), or outcome.result.
execute_tool(tool_name, tools, outcome) ==
  IF tool_name = ListName THEN LookupRaised
  ELSE IF ~InCatalog(tool_name, tools)
    THEN ExecutionResult(FALSE, EmptyText, ToolNotFoundText(tool_name), NullName)
  ELSE IF outcome.raises
    THEN ExecutionResult(FALSE, EmptyText, ToolErrorText(outcome.e), tool_name)
  ELSE ExecutionResult(TRUE, ToolOutput(outcome.result), None, tool_name)

\* `a or b`, on str-or-None values: a when a is truthy.
Truthy(v) == v # None /\ v # EmptyText
Or(a, b) == IF Truthy(a) THEN a ELSE b

(***************************************************************************)
(* The oracle and the tools: what they may answer.                         *)
(***************************************************************************)
Response(fence, block, body, text) ==
  [fence |-> fence, block |-> block, body |-> body, text |-> text]

\* Responses of the oracle to the decision request.
DecisionResponses ==
  { \* {"action_type": "tool_call", "tool_name": "search", "tool_input": {..}}
    Response(FALSE, NoBlock, JsonObject("tool_call", "search", "{args}"),
             <<"{", "search", "}">>),
    \* the same for a tool that is not in the catalog, no action_type
    Response(FALSE, NoBlock, JsonObject(Absent, "ghost", Absent),
             <<"{", "ghost", "}">>),
    \* {"action_type": "tool_call"}: the tool name is missing
    Response(FALSE, NoBlock, JsonObject("tool_call", Absent, NullName),
             <<"{", "}">>),
    \* {"action_type": null, "tool_name": ["search"]}
    Response(FALSE, NoBlock, JsonObject(NullName, ListName, "{}"),
             <<"{", "[", "search", "]", "}">>),
    \* ```json {"action_type": "final_answer"} ```
    Response(TRUE, JsonObject("final_answer", Absent, Absent), Malformed,
             <<"<fence>", "json", "{", "final", "_answer", "}", "<fence>">>),
    \* [] : well-formed JSON that is not an object
    Response(FALSE, NoBlock, JsonOther("array"), <<"[", "]">>),
    \* ``` 42 ``` : a fenced number
    Response(TRUE, JsonOther("number"), Malformed, <<"<fence>", "42", "<fence>">>),
    \* one unclosed fence, then "TOOL: Search | PARAMS: {}"
    Response(TRUE, NoBlock, Malformed,
             <<"<fence>", "TOOL", ":", " ", "Search", " ", "|", " ", "PARAMS">>),
    \* "FINAL_ANSWER: 42, found with search"
    Response(FALSE, NoBlock, Malformed,
             <<"FINAL", "_answer", ":", " ", "42", " ", "search">>),
    \* text with no keyword and no tool name
    Response(FALSE, NoBlock, Malformed, <<"hmm">>) }

ToolResult(shape, output, repr) ==
  [shape |-> shape, output |-> output, repr |-> repr]

Returns(result) == [raises |-> FALSE, e |-> EmptyText, result |-> result]
Raises(e) ==
  [raises |-> TRUE, e |-> e, result |-> ToolResult("other", NoOutputKey, EmptyText)]

\* What a tool of the catalog does when it is invoked.
ToolOutcomes ==
  { Returns(ToolResult("other", NoOutputKey, <<"42">>)),
    Returns(ToolResult("dict", <<"Task", " ", "completed">>, <<"{..}">>)),
    Returns(ToolResult("dict", NonText, <<"{..}">>)),
    Returns(ToolResult("content", EmptyText, <<"<msg>">>)),
    Raises(<<"timeout">>),
    Raises(<<"division", " ", "by", " ", "zero">>) }

\* Responses of the oracle to the reflection request.
ReflectionTexts ==
  { <<"noted">>, <<"Retry">>, <<"zh_task", "zh_complete">>,
    <<"zh_already", "zh_complete", ",", " ", "zh_need", "zh_improve">> }

(***************************************************************************)
(* State.                                                                  *)
(***************************************************************************)
VARIABLES
  config,               \* OrchestratorConfig: max_steps, max_history, early_stop_threshold
  tools,                \* executor.tools: the catalog, in dict order
  reflection_library,   \* orchestrator.reflection_library (present: not None)
  history,              \* context_manager.history
  current_step,         \* context_manager.current_step
  stats,                \* context_manager.stats
  consecutive_failures, \* local of run()
  final_answer,         \* local of run()
  decision,             \* (action_type, tool_name, tool_input) of run()
  execution_result,     \* local of run()
  summary,              \* what run() returned: << >> or <<ExecutionSummary>>
  pc,                   \* position of run()
  exit,                 \* how the loop of run() was left
  runs,                 \* calls of run() so far
  log,                  \* history variable: every entry add_step appended in this run
  decisions,            \* history variable: calls of decide_action in this run
  invocations,          \* history variable: calls of tool.ainvoke in this run
  reflect_calls,        \* history variable: calls of reflector.reflect in this run
  call,                 \* a direct call of a component: its arguments and result
  storage,              \* the durable records: the files of the library and of the history
  task,                 \* context_manager.task
  event_loop            \* asyncio: the coroutine that runs and the suspended ones

vars == <<config, tools, reflection_library, history, current_step, stats,
          consecutive_failures, final_answer, decision, execution_result,
          summary, pc, exit, runs, log, decisions, invocations, reflect_calls,
          call, storage, task, event_loop>>

\* No component has been called directly.
NoCall == [op |-> "none"]

\* A file that does not exist, and one whose text is not a JSON document.
NoFile == [kind |-> "absent"]
Unreadable == [kind |-> "unreadable"]

\* A file holding the JSON document data.
JsonFile(data) == [kind |-> "json", data |-> data]

\* One coroutine only: nothing is suspended.
NoLoop == [running |-> 1, suspended |-> << >>]

\* Neither reflexion_reflections.json nor reflexion_history.json exists.
NoStorage == [reflections |-> NoFile, history |-> NoFile]

ToolNames == {"search", "calc", "ghost"}

EmptyStats ==
  [total_steps |-> 0, successful_steps |-> 0, failed_steps |-> 0,
   tool_usage |-> [n \in ToolNames |-> 0]]

MemoryEntry(step_number, action, tool_name, observation, reflection, status) ==
  [step_number |-> step_number, action |-> action, tool_name |-> tool_name,
   observation |-> observation, reflection |-> reflection, status |-> status]

Last(s) == s[Len(s)]

(***************************************************************************)
(* ContextManager (context_manager.py).                                    *)
(***************************************************************************)
\* lines 179-181: history[-max_history:] when the history is too long.
LimitHistory(h, max_history) ==
  IF Len(h) > max_history THEN PySliceFrom(h, 0 - max_history) ELSE h

\* The statistics with failed steps counted in the total only.
UpdateStatsFailedUncounted(st, tool_name, status) ==
  [total_steps |-> st.total_steps + 1,
   successful_steps |-> st.successful_steps + (IF status = "success" THEN 1 ELSE 0),
   failed_steps |-> st.failed_steps,
   tool_usage |-> IF tool_name \in ToolNames
                    THEN [st.tool_usage EXCEPT ![tool_name] = @ + 1]
                    ELSE st.tool_usage]

\* lines 168-177
UpdateStats(st, tool_name, status) ==
  [total_steps |-> st.total_steps + 1,
   successful_steps |-> st.successful_steps + (IF status = "success" THEN 1 ELSE 0),
   failed_steps |-> st.failed_steps + (IF status = "failed" THEN 1 ELSE 0),
   tool_usage |-> IF tool_name \in ToolNames
                    THEN [st.tool_usage EXCEPT ![tool_name] = @ + 1]
                    ELSE st.tool_usage]

\* The sequence number taken from the length of the retained history.
NextStepFromHistory(h, step) == Len(h) + 1

\* lines 152-155: current_step += 1; step_number = current_step.
NextStepNumber(h, step) == step + 1

\* The loop test comparing the actions of the last three records only.
should_stop_action_only(h, step, max_steps) ==
  IF step >= max_steps THEN TRUE
  ELSE IF Len(h) >= 3 THEN
    LET last_three == PySliceFrom(h, 0 - 3)
    IN Cardinality({last_three[i].action : i \in 1..3}) = 1
  ELSE FALSE

\* lines 225-237
should_stop(h, step, max_steps) ==
  IF step >= max_steps THEN TRUE
  ELSE IF Len(h) >= 3 THEN
    LET last_three == PySliceFrom(h, 0 - 3)
    IN IF Cardinality({last_three[i].action : i \in 1..3}) = 1
          /\ Cardinality({last_three[i].observation : i \in 1..3}) = 1
         THEN TRUE
         ELSE FALSE
  ELSE FALSE

\* null for None, in a JSON document.
JsonNull == <<"<null>">>

\* json.dump of an Optional[str], and json.load of it.
ToJson(value) == IF value = None THEN JsonNull ELSE value
FromJson(value) == IF value = JsonNull THEN None ELSE value

\* MemoryEntry.to_dict (lines 32-44), the keys the model carries.
entry_to_dict(entry) ==
  [step_number |-> entry.step_number, action |-> entry.action,
   tool_name |-> entry.tool_name, observation |-> entry.observation,
   reflection |-> ToJson(entry.reflection), status |-> entry.status]

\* MemoryEntry.from_dict (lines 46-58)
entry_from_dict(data) ==
  MemoryEntry(data.step_number, data.action, data.tool_name,
              data.observation, FromJson(data.reflection), data.status)

\* The document written without the statistics.
HistoryDocumentNoStats(t, step, st, h) ==
  [task |-> ToJson(t), current_step |-> step,
   history |-> [i \in 1..Len(h) |-> entry_to_dict(h[i])]]

\* lines 302-308 of save: the document written.
HistoryDocument(t, step, st, h) ==
  [task |-> ToJson(t), current_step |-> step, stats |-> st,
   history |-> [i \in 1..Len(h) |-> entry_to_dict(h[i])]]

\* save (lines 297-311): the history file after the call.
SavedHistory(enable_persistence, t, step, st, h, file) ==
  IF enable_persistence THEN JsonFile(HistoryDocument(t, step, st, h))
  ELSE file

\* self.stats = {} of load, when the document has no "stats" key.
NoStats == [tool_usage |-> [n \in ToolNames |-> 0]]

\* lines 319-329 of load: the store rebuilt from the document, every key
\* but the entries' read with data.get and a default.
RestoredStore(data) ==
  [task |-> IF "task" \in DOMAIN data THEN FromJson(data.task) ELSE None,
   current_step |-> IF "current_step" \in DOMAIN data
                      THEN data.current_step ELSE 0,
   stats |-> IF "stats" \in DOMAIN data THEN data.stats ELSE NoStats,
   history |-> IF "history" \in DOMAIN data
                 THEN [i \in 1..Len(data.history) |->
                         entry_from_dict(data.history[i])]
                 ELSE << >>]

(***************************************************************************)
(* ReflexionOrchestrator.run (orchestrator.py 113-261), one action per     *)
(* stretch of code between two calls of the oracle or of a tool.           *)
(***************************************************************************)
\* The loop resumed at the decision, after the test of its head.
LoopBody == "decide"

\* line 138: where an iteration starts, the test of the while statement.
LoopHead == "loop"

\* The final-answer branch leaving final_answer as line 136 set it.
TaskDoneUnset == None

\* "任务完成" (line 152)
TaskDoneText == <<"zh_task", "zh_complete">>

\* f"调用工具 {tool_name}" (line 165)
ActionText(tool_name) == <<"zh_call", "zh_tool", " ", Format(tool_name)>>

\* The early-stop test with > for >=.
EarlyStopStrict(failures, threshold) == failures > threshold

\* line 184: the early-stop test after the counter update.
EarlyStop(failures, threshold) == failures >= threshold

\* lines 178-181
CountFailures(failures, success) == IF success THEN 0 ELSE failures + 1

\* The step count taken from the retained history instead of the counter.
ReportedStepsFromHistory(h, step) == Len(h)

\* line 233: the step count reported by the summary.
ReportedSteps(h, step) == step

\* The final answer taken from the reflection instead of the observation.
StopAnswerFromReflection(entry) == entry.reflection

\* line 222: the final answer when the reflector says stop.
StopAnswer(entry) == entry.observation

\* The reflection computed but never stored on the entry.
AttachReflectionDropped(h, reflection) == h

\* line 210: last_entry.reflection = reflection, on the last entry of h.
AttachReflection(h, reflection) ==
  [h EXCEPT ![Len(h)].reflection = reflection]

\* Success only for a run whose last step did not fail.
RunSuccessLastStepOk(failures, threshold) == failures = 0

\* line 232
RunSuccess(failures, threshold) == failures < threshold

\* lines 267-276: StepResult(...) of one MemoryEntry.
StepResult(entry) ==
  [step_number |-> entry.step_number, action |-> entry.action,
   tool_name |-> entry.tool_name, observation |-> entry.observation,
   reflection |-> entry.reflection,
   is_success |-> entry.status = "success",
   is_final |-> entry.status = "final"]

\* _convert_to_step_results (lines 263-278), over context_manager.history.
_convert_to_step_results(h) ==
  [i \in 1..Len(h) |-> StepResult(h[i])]

\* enable_persistence is left at its default (line 23).
Configs ==
  [max_steps : 0..MaxStepsBound, max_history : 0..MaxHistoryBound,
   early_stop_threshold : 0..MaxThreshold, enable_persistence : {FALSE}]

\* The task run() is called with.
Tasks == { <<"add", " ", "two", " ", "numbers">> }

NoLibrary == [present |-> FALSE, reflections |-> << >>]
\* ReflectionLibrary() on a first run: load() stores the built-in entries.
DefaultLibrary == [present |-> TRUE, reflections |-> PredefinedReflections]

\* A library the caller built and handed to the constructor (lines 63,
\* 104): the built-in entries and one entry added for the pattern "42".
CustomLibrary ==
  [present |-> TRUE,
   reflections |->
     Append(PredefinedReflections,
            ReflectionEntry(_generate_id(<<"42">>, <<"zh_custom_advice">>),
                            <<"42">>, "unknown_error", <<"zh_custom_advice">>,
                            << <<"zh_check_input">> >>))]

Init ==
  /\ config \in Configs
  /\ tools = <<"search">>
  /\ reflection_library \in {NoLibrary, DefaultLibrary, CustomLibrary}
  /\ history = << >>
  /\ current_step = 0
  /\ stats = EmptyStats
  /\ consecutive_failures = 0
  /\ final_answer = None
  /\ decision = NoDecision
  /\ execution_result = NoResult
  /\ summary = << >>
  /\ pc = "idle"
  /\ exit = "none"
  /\ runs = 0
  /\ log = << >>
  /\ decisions = 0
  /\ invocations = 0
  /\ reflect_calls = 0
  /\ call = NoCall
  /\ storage = NoStorage
  /\ task = None
  /\ event_loop = NoLoop

\* run() without the reset of the store: history, counter and statistics
\* are those the previous run left.
StartRunKeepingStore ==
  /\ pc \in {"idle", "done"}
  /\ runs < MaxRuns
  /\ runs' = runs + 1
  /\ consecutive_failures' = 0
  /\ final_answer' = None
  /\ decision' = NoDecision
  /\ execution_result' = NoResult
  /\ summary' = << >>
  /\ exit' = "none"
  /\ log' = << >>
  /\ decisions' = 0
  /\ invocations' = 0
  /\ reflect_calls' = 0
  /\ pc' = LoopHead
  /\ \E t \in Tasks : task' = t
  /\ UNCHANGED <<event_loop, storage, call, config, tools, reflection_library,
                 history, current_step, stats>>

\* lines 133-136: run() is called; start_task (context_manager.py 108-125).
StartRun ==
  /\ pc \in {"idle", "done"}
  /\ runs < MaxRuns
  /\ runs' = runs + 1
  /\ history' = << >>
  /\ current_step' = 0
  /\ stats' = EmptyStats
  /\ consecutive_failures' = 0
  /\ final_answer' = None
  /\ decision' = NoDecision
  /\ execution_result' = NoResult
  /\ summary' = << >>
  /\ exit' = "none"
  /\ log' = << >>
  /\ decisions' = 0
  /\ invocations' = 0
  /\ reflect_calls' = 0
  /\ pc' = LoopHead
  /\ \E t \in Tasks : task' = t
  /\ UNCHANGED <<event_loop, storage, call, config, tools, reflection_library>>

\* line 138: while not self.context_manager.should_stop()
LoopTest ==
  /\ pc = "loop"
  /\ IF should_stop(history, current_step, config.max_steps)
       THEN /\ pc' = "summary"
            /\ exit' = IF current_step >= config.max_steps
                         THEN "step_budget" ELSE "loop_detected"
       ELSE /\ pc' = "decide"
            /\ exit' = exit
  /\ UNCHANGED <<event_loop, task, storage, call, config, tools, reflection_library, history, current_step,
                 stats, consecutive_failures, final_answer, decision,
                 execution_result, summary, runs, log, decisions,
                 invocations, reflect_calls>>

\* lines 140-153: decide_action (executor.py 112-150) and the final-answer test.
DecideAction ==
  /\ pc = "decide"
  /\ decisions' = decisions + 1
  /\ \E response \in DecisionResponses :
       LET d == _parse_decision(response, tools)
       IN IF d = Raised
            THEN /\ pc' = "raised"
                 /\ exit' = "fault"
                 /\ decision' = d
                 /\ final_answer' = final_answer
          ELSE IF d.action_type = "final_answer"
            THEN /\ pc' = "summary"
                 /\ exit' = "final_answer"
                 /\ decision' = d
                 /\ final_answer' = TaskDoneText
          ELSE   /\ pc' = "execute"
                 /\ exit' = exit
                 /\ decision' = d
                 /\ final_answer' = final_answer
  /\ UNCHANGED <<event_loop, task, storage, call, config, tools, reflection_library, history, current_step,
                 stats, consecutive_failures, execution_result, summary, runs,
                 log, invocations, reflect_calls>>

\* lines 156-159: execute_tool (executor.py 152-211).
ExecuteTool ==
  /\ pc = "execute"
  /\ \E outcome \in ToolOutcomes :
       LET r == execute_tool(decision.tool_name, tools, outcome)
       IN /\ execution_result' = r
          /\ IF r = LookupRaised
               THEN pc' = "raised" /\ exit' = "fault"
               ELSE pc' = "record" /\ exit' = exit
  /\ invocations' = IF decision.tool_name # ListName
                       /\ InCatalog(decision.tool_name, tools)
                      THEN invocations + 1 ELSE invocations
  /\ UNCHANGED <<event_loop, task, storage, call, config, tools, reflection_library, history, current_step,
                 stats, consecutive_failures, final_answer, decision, summary,
                 runs, log, decisions, reflect_calls>>

\* lines 162-187: add_step (context_manager.py 127-183), the failure counter
\* and the early stop.
RecordStep ==
  /\ pc = "record"
  /\ LET status == IF execution_result.success THEN "success" ELSE "failed"
         entry == MemoryEntry(NextStepNumber(history, current_step),
                              ActionText(decision.tool_name),
                              decision.tool_name,
                              Or(execution_result.output,
                                 Or(execution_result.error, EmptyText)),
                              None, status)
         failures == CountFailures(consecutive_failures, execution_result.success)
     IN /\ current_step' = NextStepNumber(history, current_step)
        /\ history' = LimitHistory(Append(history, entry), config.max_history)
        /\ log' = Append(log, entry)
        /\ stats' = UpdateStats(stats, decision.tool_name, status)
        /\ consecutive_failures' = failures
        /\ IF EarlyStop(failures, config.early_stop_threshold)
             THEN pc' = "summary" /\ exit' = "consecutive_failures"
             ELSE pc' = "reflect" /\ exit' = exit
  /\ decision' = NoDecision
  /\ UNCHANGED <<event_loop, task, storage, call, config, tools, reflection_library, final_answer,
                 execution_result, summary, runs, decisions, invocations,
                 reflect_calls>>

\* The lookup recording a use on the entry it returns.
ReflectRecordingUsage ==
  /\ pc = "reflect"
  /\ reflect_calls' = reflect_calls + 1
  /\ \E text \in ReflectionTexts :
       LET error_message == Or(execution_result.error, execution_result.output)
           reflection ==
             AugmentReflection(reflection_library, text,
                               execution_result.success, error_message)
           found == IF LibraryTruthy(reflection_library) /\ ~execution_result.success
                      THEN find_reflection(reflection_library.reflections,
                                           error_message)
                      ELSE NoEntry
       IN /\ history' = AttachReflection(history, reflection)
          /\ log' = AttachReflection(log, reflection)
          /\ reflection_library' =
               IF found = NoEntry THEN reflection_library
               ELSE [reflection_library EXCEPT !.reflections =
                       [i \in 1..Len(@) |->
                          IF @[i].id = found.id
                            THEN record_usage(@[i], FALSE) ELSE @[i]]]
  /\ execution_result' = NoResult
  /\ pc' = "continue"
  /\ UNCHANGED <<event_loop, task, storage, call, config, tools, current_step, stats,
                 consecutive_failures, final_answer, decision, summary, exit,
                 runs, decisions, invocations>>

\* lines 190-210: reflect (reflector.py 112-146), the library lookup, and the
\* reflection attached to the entry get_last_entry() returned.
Reflect ==
  /\ pc = "reflect"
  /\ reflect_calls' = reflect_calls + 1
  /\ \E text \in ReflectionTexts :
       LET reflection ==
             AugmentReflection(reflection_library, text,
                               execution_result.success,
                               Or(execution_result.error, execution_result.output))
       IN /\ history' = AttachReflection(history, reflection)
          /\ log' = AttachReflection(log, reflection)
  /\ execution_result' = NoResult
  /\ pc' = "continue"
  /\ UNCHANGED <<event_loop, task, storage, call, config, tools, reflection_library, current_step, stats,
                 consecutive_failures, final_answer, decision, summary, exit,
                 runs, decisions, invocations>>

\* lines 216-227: should_continue (reflector.py 166-207) on the last entry.
ShouldContinue ==
  /\ pc = "continue"
  /\ LET last_entry == Last(history)
     IN IF ShouldContinueRaises(last_entry.reflection, last_entry.observation)
          THEN /\ pc' = "raised"
               /\ exit' = "fault"
               /\ final_answer' = final_answer
        ELSE IF ~should_continue(last_entry.reflection, last_entry.observation)
          THEN /\ pc' = "summary"
               /\ exit' = "reflector_stop"
               /\ final_answer' = StopAnswer(last_entry)
        ELSE   /\ pc' = LoopHead
               /\ exit' = exit
               /\ final_answer' = final_answer
  /\ UNCHANGED <<event_loop, task, storage, call, config, tools, reflection_library, history, current_step,
                 stats, consecutive_failures, decision, execution_result,
                 summary, runs, log, decisions, invocations, reflect_calls>>

\* lines 230-261: the summary is built and returned.
Summarize ==
  /\ pc = "summary"
  /\ summary' = << [success |-> RunSuccess(consecutive_failures,
                                           config.early_stop_threshold),
                    total_steps |-> ReportedSteps(history, current_step),
                    successful_steps |-> stats.successful_steps,
                    failed_steps |-> stats.failed_steps,
                    final_answer |-> final_answer,
                    history |-> _convert_to_step_results(history)] >>
  /\ storage' = [storage EXCEPT !.history =
                   SavedHistory(config.enable_persistence, task, current_step,
                                stats, history, @)]
  /\ pc' = "done"
  /\ decision' = NoDecision
  /\ execution_result' = NoResult
  /\ UNCHANGED <<event_loop, task, call, config, tools, reflection_library, history, current_step,
                 stats, consecutive_failures, final_answer, exit, runs, log,
                 decisions, invocations, reflect_calls>>

Next ==
  \/ StartRun
  \/ LoopTest
  \/ DecideAction
  \/ ExecuteTool
  \/ RecordStep
  \/ Reflect
  \/ ShouldContinue
  \/ Summarize

Spec == Init /\ [][Next]_vars

\* Every call of the oracle and of a tool returns, and run() is scheduled.
FairSpec == Spec /\ WF_vars(Next)

TypeOK ==
  /\ pc \in {"idle", "loop", "decide", "execute", "record", "reflect",
             "continue", "summary", "done", "raised"}
  /\ current_step \in 0..(MaxStepsBound + 1)
  /\ Len(history) <= MaxStepsBound + 1

(***************************************************************************)
(* Direct calls of the components, the orchestrator at rest.               *)
(***************************************************************************)
\* OrchestratorConfig() (orchestrator.py 16-25)
DefaultConfig ==
  [max_steps |-> 20, max_history |-> 100, early_stop_threshold |-> 3,
   enable_persistence |-> FALSE]

orchestrator_vars ==
  <<event_loop, config, tools, task, history, current_step, stats, consecutive_failures,
    final_answer, decision, execution_result, summary, pc, exit, runs, log,
    decisions, invocations, reflect_calls>>

\* A constructed orchestrator on which run() has not been called.
OrchestratorIdle ==
  /\ config = DefaultConfig
  /\ tools = <<"search">>
  /\ event_loop = NoLoop
  /\ task = None
  /\ history = << >>
  /\ current_step = 0
  /\ stats = EmptyStats
  /\ consecutive_failures = 0
  /\ final_answer = None
  /\ decision = NoDecision
  /\ execution_result = NoResult
  /\ summary = << >>
  /\ pc = "idle"
  /\ exit = "none"
  /\ runs = 0
  /\ log = << >>
  /\ decisions = 0
  /\ invocations = 0
  /\ reflect_calls = 0

\* Reflection texts handed to should_continue.
ReflectionInputs ==
  ReflectionTexts \cup
  { << >>, <<"continue">>, <<"please", " ", "fix">>,
    <<"Task", " ", "completed", ",", " ", "Retry">>,
    <<"successfully", " ", "completed">>,
    <<"zh_retry", ",", "zh_goal", "zh_reached">>,
    <<"task", "completed">>,
    <<"zh_correct", " ", "error">> }

\* Observation texts handed to should_continue.
ObservationInputs ==
  { << >>, <<"42">>, <<"error", ":", " ", "boom">>,
    <<"Task", " ", "completed">>,
    <<"zh_tool", "zh_exec", "zh_error", ":", " ", "timeout">>,
    <<"failed", ":", " ", "zh_success", "zh_complete">>,
    <<"exception", " ", "zh_already", "zh_complete">>,
    <<"zh_fail">>, <<"completed">>, <<"zh_goal", "zh_reached">> }

ReflectorInit ==
  /\ OrchestratorIdle
  /\ reflection_library = NoLibrary
  /\ storage = NoStorage
  /\ call \in [op : {"args"}, reflection : ReflectionInputs,
                observation : ObservationInputs]

\* await reflector.should_continue(reflection, observation)
CallShouldContinue ==
  /\ call.op = "args"
  /\ call' = [op |-> "should_continue", reflection |-> call.reflection,
              observation |-> call.observation,
              result |-> should_continue(call.reflection, call.observation)]
  /\ UNCHANGED <<orchestrator_vars, storage>>
  /\ UNCHANGED reflection_library

ReflectorNext == CallShouldContinue

ReflectorSpec == ReflectorInit /\ [][ReflectorNext]_vars

(***************************************************************************)
(* Direct calls of ExecutorAgent._parse_decision, on several catalogs.     *)
(***************************************************************************)
\* Responses json.loads rejects.
FallbackResponses ==
  { Response(FALSE, NoBlock, Malformed,
             <<"use", " ", "calc", " ", "then", " ", "Search">>),
    Response(FALSE, NoBlock, Malformed,
             <<"let", " ", "me", " ", "final", "ize", " ", "with", " ", "calc">>),
    Response(FALSE, NoBlock, Malformed,
             <<"Final", " ", "step", ":", " ", "Search">>),
    Response(FALSE, NoBlock, Malformed, <<"call", " ", "Calc">>),
    \* ``` calc( ``` : a fenced block that is no JSON
    Response(TRUE, Malformed, Malformed,
             <<"<fence>", "calc", "(", "<fence>">>) }

\* self.tools, in dict order.
Catalogs ==
  { << >>, <<"search">>, <<"search", "calc">>, <<"calc", "search">>,
    <<"Calc">> }

ParserInit ==
  /\ OrchestratorIdle
  /\ reflection_library = NoLibrary
  /\ storage = NoStorage
  /\ call \in [op : {"args"},
                response : DecisionResponses \cup FallbackResponses,
                tools : Catalogs]

\* executor._parse_decision(response.content)
CallParseDecision ==
  /\ call.op = "args"
  /\ call' = [op |-> "_parse_decision", response |-> call.response,
              tools |-> call.tools,
              result |-> _parse_decision(call.response, call.tools)]
  /\ UNCHANGED <<orchestrator_vars, storage>>
  /\ UNCHANGED reflection_library

ParserNext == CallParseDecision

ParserSpec == ParserInit /\ [][ParserNext]_vars

(***************************************************************************)
(* CollaborativeAgents.run (agents/collaboration.py 83-191), with          *)
(* CriticAgent.review (agents/specialized.py 225-281).  The coroutine's    *)
(* locals are carried in `call`; it is suspended at every await.           *)
(***************************************************************************)
MaxIterations == 3

\* PlannerAgent.plan (specialized.py 78-88) and _improve_plan (223-248).
Plan(needs_improvement, previous_review) ==
  [raw_plan |-> <<"1", ".", " ", "search">>,
   needs_improvement |-> needs_improvement,
   previous_review |-> previous_review]

\* What _execute_plan returns (lines 209-221): the result of the last step,
\* as execute_step built it (specialized.py 161-183), or the dict of line
\* 221 when the plan has no step.
StepOutcome(success, result, error) ==
  [success |-> success, result |-> result, error |-> error]

StepOutcomes ==
  { StepOutcome(TRUE, <<"42">>, None),
    StepOutcome(FALSE, None, <<"zh_tool", " ", "ghost", " ", "zh_not_exist">>),
    StepOutcome(FALSE, None, <<"zh_cannot_execute_plan">>) }

\* What the critic's oracle answers: "通过", "不满足要求", "Pass", "rejected".
ReviewContents ==
  { <<"zh_pass">>, <<"zh_not", "zh_satisfy", "zh_requirement">>, <<"Pass">>,
    <<"rejected">> }

\* specialized.py 265-281: the review dict of a response.
review(content) ==
  LET content_lower == Lower(content)
  IN [review_content |-> content,
      passed |-> \/ Contains(content_lower, <<"zh_satisfy">>)
                 \/ Contains(content_lower, <<"zh_pass">>)
                 \/ Contains(content_lower, <<"pass">>)]

\* A loop that runs once more than range(max_iterations).
range_inclusive(iteration, max_iterations) == iteration <= max_iterations

\* line 125: for iteration in range(max_iterations), at index `iteration`.
range_has_next(iteration, max_iterations) == iteration < max_iterations

\* lines 173-181
CollaborationResult(success, plan, execution_history, reviews, final_result, iterations) ==
  [success |-> success, plan |-> plan, execution_history |-> execution_history,
   reviews |-> reviews, final_result |-> final_result,
   iterations |-> iterations]

CollabInit ==
  /\ OrchestratorIdle
  /\ reflection_library = NoLibrary
  /\ storage = NoStorage
  /\ call \in [op : {"args"}, max_iterations : 0..MaxIterations]

\* lines 111-122: the locals, and the plan of the planner.
CollabPlan ==
  /\ call.op = "args"
  /\ call' = [op |-> "CollaborativeAgents.run", pc |-> "for",
              max_iterations |-> call.max_iterations, iteration |-> 0,
              plan |-> Plan(FALSE, EmptyText),
              execution_history |-> << >>, reviews |-> << >>,
              final_result |-> << >>, executions |-> 0, review_calls |-> 0,
              result |-> << >>]
  /\ UNCHANGED <<orchestrator_vars, storage>>
  /\ UNCHANGED reflection_library

\* line 125: the next index of the range, or the end of the loop.
CollabFor ==
  /\ call.op = "CollaborativeAgents.run"
  /\ call.pc = "for"
  /\ call' = [call EXCEPT !.pc = IF range_has_next(call.iteration,
                                                    call.max_iterations)
                                   THEN "execute" ELSE "result"]
  /\ UNCHANGED <<orchestrator_vars, storage>>
  /\ UNCHANGED reflection_library

\* lines 130-138: _execute_plan, and its result appended.
CollabExecute ==
  /\ call.op = "CollaborativeAgents.run"
  /\ call.pc = "execute"
  /\ \E outcome \in StepOutcomes :
       call' = [call EXCEPT !.execution_history = Append(@, outcome),
                            !.executions = @ + 1,
                            !.pc = "review"]
  /\ UNCHANGED <<orchestrator_vars, storage>>
  /\ UNCHANGED reflection_library

\* lines 144-149: critic.review, and the review appended.
CollabReview ==
  /\ call.op = "CollaborativeAgents.run"
  /\ call.pc = "review"
  /\ \E content \in ReviewContents :
       call' = [call EXCEPT !.reviews = Append(@, review(content)),
                            !.review_calls = @ + 1,
                            !.pc = "passed"]
  /\ UNCHANGED <<orchestrator_vars, storage>>
  /\ UNCHANGED reflection_library

\* lines 155-169: break with the final result, or the plan improved.
CollabPassed ==
  /\ call.op = "CollaborativeAgents.run"
  /\ call.pc = "passed"
  /\ IF Last(call.reviews).passed
       THEN call' = [call EXCEPT !.final_result = <<Last(call.execution_history)>>,
                                 !.pc = "result"]
       ELSE call' = [call EXCEPT !.plan = Plan(TRUE, Last(call.reviews).review_content),
                                 !.iteration = @ + 1,
                                 !.pc = "for"]
  /\ UNCHANGED <<orchestrator_vars, storage>>
  /\ UNCHANGED reflection_library

\* lines 172-191: the result is built and returned.
CollabReturn ==
  /\ call.op = "CollaborativeAgents.run"
  /\ call.pc = "result"
  /\ call' = [call EXCEPT
       !.result = << CollaborationResult(call.final_result # << >>, call.plan,
                                         call.execution_history, call.reviews,
                                         call.final_result,
                                         Len(call.execution_history)) >>,
       !.pc = "done"]
  /\ UNCHANGED <<orchestrator_vars, storage>>
  /\ UNCHANGED reflection_library

CollabNext ==
  \/ CollabPlan
  \/ CollabFor
  \/ CollabExecute
  \/ CollabReview
  \/ CollabPassed
  \/ CollabReturn

CollabSpec == CollabInit /\ [][CollabNext]_vars

(***************************************************************************)
(* ToolRegistry (tools/tool_registry.py): register and unregister.  A dict *)
(* is the sequence of its items [key, value] in insertion order; the       *)
(* registry is carried in `call`.                                          *)
(***************************************************************************)
MaxRegistryCalls == 5

\* key in d
HasKey(d, key) == \E i \in 1..Len(d) : d[i].key = key

\* set(d.keys())
KeySet(d) == {d[i].key : i \in 1..Len(d)}

\* d[key] = value
SetItem(d, key, value) ==
  IF HasKey(d, key)
    THEN [i \in 1..Len(d) |->
            IF d[i].key = key THEN [key |-> key, value |-> value] ELSE d[i]]
    ELSE Append(d, [key |-> key, value |-> value])

\* d[key]
GetItem(d, key) == d[CHOOSE i \in 1..Len(d) : d[i].key = key].value

\* del d[key]
DelItem(d, key) ==
  LET Keep(item) == item.key # key IN SelectSeq(d, Keep)

\* list.remove(x): the list without the first occurrence of x.
ListRemove(l, x) ==
  LET first == CHOOSE i \in 1..Len(l) : l[i] = x /\ \A j \in 1..(i - 1) : l[j] # x
  IN SubSeq(l, 1, first - 1) \o SubSeq(l, first + 1, Len(l))

\* __init__, lines 19-23
NewRegistry == [_tools |-> << >>, _categories |-> << >>, _metadata |-> << >>]

\* register(tool, category, metadata), lines 25-53, for a tool named `name`:
\* whether it raised ValueError, and the registry after the call.
register(registry, name, category, metadata) ==
  IF HasKey(registry._tools, name)
    THEN [raised |-> TRUE, registry |-> registry]
  ELSE LET listed == IF HasKey(registry._categories, category)
                       THEN GetItem(registry._categories, category) ELSE << >>
       IN [raised |-> FALSE,
           registry |->
             [_tools |-> SetItem(registry._tools, name, "<tool>"),
              _categories |-> SetItem(registry._categories, category,
                                      Append(listed, name)),
              _metadata |-> SetItem(registry._metadata, name,
                                    IF metadata = NullName THEN "{}" ELSE metadata)]]

\* unregister that leaves the category lists as they are.
unregister_keeping_categories(registry, name) ==
  IF ~HasKey(registry._tools, name)
    THEN [result |-> FALSE, registry |-> registry]
  ELSE [result |-> TRUE,
        registry |-> [_tools |-> DelItem(registry._tools, name),
                      _categories |-> registry._categories,
                      _metadata |-> DelItem(registry._metadata, name)]]

\* unregister(name), lines 131-153: what it returned, and the registry after.
unregister(registry, name) ==
  IF ~HasKey(registry._tools, name)
    THEN [result |-> FALSE, registry |-> registry]
  ELSE [result |-> TRUE,
        registry |->
          [_tools |-> DelItem(registry._tools, name),
           _categories |->
             [i \in 1..Len(registry._categories) |->
                LET category_tools == registry._categories[i].value
                IN [key |-> registry._categories[i].key,
                    value |-> IF \E j \in 1..Len(category_tools) :
                                     category_tools[j] = name
                                THEN ListRemove(category_tools, name)
                                ELSE category_tools]],
           _metadata |-> DelItem(registry._metadata, name)]]

\* Inputs of this section.
RegistryNames == {"search", "calc"}
RegistryCategories == {"general", "math"}
RegistryMetadata == {NullName, "{deps}"}

RegistryInit ==
  /\ OrchestratorIdle
  /\ reflection_library = NoLibrary
  /\ storage = NoStorage
  /\ call = [op |-> "ToolRegistry", registry |-> NewRegistry, calls |-> 0,
             name |-> NullName, raised |-> FALSE, result |-> FALSE,
             refused |-> {}]

\* registry.register(tool, category, metadata)
Register ==
  /\ call.op \in {"ToolRegistry", "register", "unregister"}
  /\ call.calls < MaxRegistryCalls
  /\ \E name \in RegistryNames, category \in RegistryCategories,
        metadata \in RegistryMetadata :
       LET out == register(call.registry, name, category, metadata)
       IN call' = [op |-> "register", registry |-> out.registry,
                   calls |-> call.calls + 1, name |-> name,
                   raised |-> out.raised, result |-> FALSE,
                   refused |-> IF out.raised
                                 THEN call.refused \cup {"register"}
                                 ELSE call.refused]
  /\ UNCHANGED <<orchestrator_vars, storage>>
  /\ UNCHANGED reflection_library

\* registry.unregister(name)
Unregister ==
  /\ call.op \in {"ToolRegistry", "register", "unregister"}
  /\ call.calls < MaxRegistryCalls
  /\ \E name \in RegistryNames :
       LET out == unregister(call.registry, name)
       IN call' = [op |-> "unregister", registry |-> out.registry,
                   calls |-> call.calls + 1, name |-> name,
                   raised |-> FALSE, result |-> out.result,
                   refused |-> IF out.result
                                 THEN call.refused
                                 ELSE call.refused \cup {"unregister"}]
  /\ UNCHANGED <<orchestrator_vars, storage>>
  /\ UNCHANGED reflection_library

RegistryNext == Register \/ Unregister

RegistrySpec == RegistryInit /\ [][RegistryNext]_vars

(***************************************************************************)
(* Direct calls of a ReflectionLibrary(enable_persistence=False).          *)
(***************************************************************************)
\* self.reflections = {} (line 114); load() is not called.
EmptyLibrary == [present |-> TRUE, reflections |-> << >>]

\* Error signatures of custom entries.
XNotFound == <<"X", " ", "not", " ", "found">>
CannotOpen7 ==
  <<"cannot", " ", "open", " ", "file", " ", "at", " ", "given", " ", "path",
    " ", "now">>
CannotOpen7Cap ==
  <<"Cannot", " ", "open", " ", "file", " ", "at", " ", "given", " ", "path",
    " ", "now">>
CannotOpen8 == CannotOpen7 \o <<" ", "please">>

\* The (error_pattern, reflection) pairs handed to add_reflection.
AddInputs ==
  { [error_pattern |-> XNotFound, reflection |-> <<"check", " ", "the", " ", "name">>],
    [error_pattern |-> XNotFound, reflection |-> <<"zh_check_table">>],
    [error_pattern |-> CannotOpen7, reflection |-> <<"check", " ", "the", " ", "name">>],
    [error_pattern |-> CannotOpen7Cap, reflection |-> <<"check", " ", "the", " ", "name">>],
    [error_pattern |-> CannotOpen8, reflection |-> <<"check", " ", "the", " ", "name">>] }

\* ErrorType.PARAMETER_ERROR, ErrorType.TIMEOUT_ERROR (lines 14-20)
ErrorTypes == {"parameter_error", "timeout_error"}

ActionLists == { << <<"verify">>, <<"zh_retry">> >> }

\* Error messages handed to find_reflection.
XNotFoundInTable ==
  <<"Error", ":", " ", "X", " ", "not", " ", "found", " ", "in", " ", "table">>
CannotOpen10 == CannotOpen8 \o <<" ", "try", " ", "again">>
CannotOpenTimeout == CannotOpen8 \o <<" ", "after", " ", "Timeout">>
TimeoutBadArgument == <<"Timeout", ":", " ", "bad", " ", "argument">>

FindMessages ==
  {XNotFoundInTable, CannotOpen10, CannotOpenTimeout, TimeoutBadArgument}

\* An identifier no entry carries.
MissingId == <<"<missing>">>

UpdateIds ==
  {_generate_id(in.error_pattern, in.reflection) : in \in AddInputs}
    \cup {MissingId}

\* The usages recorded on the stored entries, summed.
RECURSIVE TotalUsage(_)
TotalUsage(reflections) ==
  IF reflections = << >> THEN 0
  ELSE Head(reflections).usage_count + TotalUsage(Tail(reflections))

LibraryInit ==
  /\ OrchestratorIdle
  /\ reflection_library = EmptyLibrary
  /\ call = NoCall
  /\ storage = NoStorage

\* library.add_reflection(error_pattern, error_type, reflection, suggested_actions)
AddReflection ==
  /\ \E in \in AddInputs, error_type \in ErrorTypes,
        suggested_actions \in ActionLists :
       LET entry_id == _generate_id(in.error_pattern, in.reflection)
           existed == Stored(reflection_library.reflections, entry_id)
       IN /\ existed \/ Len(reflection_library.reflections) < MaxEntries
          /\ reflection_library' =
               [reflection_library EXCEPT !.reflections =
                  add_reflection(@, in.error_pattern, error_type,
                                 in.reflection, suggested_actions)]
          /\ call' = [op |-> "add_reflection",
                      error_pattern |-> in.error_pattern,
                      error_type |-> error_type,
                      reflection |-> in.reflection,
                      suggested_actions |-> suggested_actions,
                      existed |-> existed,
                      result |-> entry_id]
  /\ UNCHANGED <<orchestrator_vars, storage>>

\* library.update_reflection(entry_id, success)
UpdateReflection ==
  /\ \E entry_id \in UpdateIds, success \in BOOLEAN :
       LET found == Stored(reflection_library.reflections, entry_id)
       IN /\ found => TotalUsage(reflection_library.reflections) < MaxLibUsage
          /\ reflection_library' =
               IF found
                 THEN [reflection_library EXCEPT !.reflections =
                         update_reflection(@, entry_id, success)]
                 ELSE reflection_library
          /\ call' = [op |-> "update_reflection", entry_id |-> entry_id,
                      success |-> success, result |-> found]
  /\ UNCHANGED <<orchestrator_vars, storage>>

\* library.find_reflection(error_message, error_type)
FindReflection ==
  /\ \E error_message \in FindMessages, error_type \in {NoType} \cup ErrorTypes :
       call' = [op |-> "find_reflection", error_message |-> error_message,
                error_type |-> error_type,
                result |-> find_reflection_typed(reflection_library.reflections,
                                                 error_message, error_type)]
  /\ UNCHANGED reflection_library
  /\ UNCHANGED <<orchestrator_vars, storage>>

LibraryNext ==
  \/ AddReflection
  \/ UpdateReflection
  \/ FindReflection

LibrarySpec == LibraryInit /\ [][LibraryNext]_vars

(***************************************************************************)
(* record_usage on one entry: add_reflection once, then update_reflection  *)
(* on the entry it returned.                                               *)
(***************************************************************************)
\* The outcomes recorded on the entry so far.
Outcomes == IF call.op = "update_reflection" THEN call.outcomes ELSE << >>

UsageAdd ==
  /\ reflection_library.reflections = << >>
  /\ \E error_type \in ErrorTypes, suggested_actions \in ActionLists :
       /\ reflection_library' =
            [reflection_library EXCEPT !.reflections =
               add_reflection(@, XNotFound, error_type, <<"zh_check_table">>,
                              suggested_actions)]
       /\ call' = [op |-> "add_reflection", error_pattern |-> XNotFound,
                   error_type |-> error_type,
                   reflection |-> <<"zh_check_table">>,
                   suggested_actions |-> suggested_actions,
                   existed |-> FALSE,
                   result |-> _generate_id(XNotFound, <<"zh_check_table">>)]
  /\ UNCHANGED <<orchestrator_vars, storage>>

UsageUpdate ==
  /\ Len(reflection_library.reflections) = 1
  /\ reflection_library.reflections[1].usage_count < MaxUsage
  /\ \E success \in BOOLEAN :
       LET entry_id == reflection_library.reflections[1].id
       IN /\ reflection_library' =
               [reflection_library EXCEPT !.reflections =
                  update_reflection(@, entry_id, success)]
          /\ call' = [op |-> "update_reflection", entry_id |-> entry_id,
                      success |-> success, result |-> TRUE,
                      outcomes |-> Append(Outcomes, success)]
  /\ UNCHANGED <<orchestrator_vars, storage>>

UsageNext ==
  \/ UsageAdd
  \/ UsageUpdate

UsageSpec == LibraryInit /\ [][UsageNext]_vars

(***************************************************************************)
(* A ReflectionLibrary with its file: construction, add_reflection,        *)
(* update_reflection, cleanup_low_quality, find_reflection.                *)
(***************************************************************************)
\* The library record of this section: the stored entries (reflections), the
\* built-in list (predefined), and the identifiers whose stored entry is
\* the very object of the built-in list (shared), as load() stores it on a
\* first run.
Library(enable_persistence, predefined, reflections, shared) ==
  [present |-> TRUE, enable_persistence |-> enable_persistence,
   predefined |-> predefined, reflections |-> reflections, shared |-> shared]

SeedIds == {PredefinedReflections[i].id : i \in 1..Len(PredefinedReflections)}

\* {"reflections": {}}
EmptyDocument == << >>

\* A document written without the success_rate and usage_count keys.
LegacyDocument ==
  << [key |-> _generate_id(XNotFound, <<"zh_check_table">>),
      value |-> [id |-> _generate_id(XNotFound, <<"zh_check_table">>),
                 error_pattern |-> XNotFound, error_type |-> "parameter_error",
                 reflection |-> <<"zh_check_table">>,
                 suggested_actions |-> << <<"verify">> >>]] >>

\* The states of reflexion_reflections.json a library is constructed on:
\* the last one is the file the first save of a first run leaves.
ReflectionFiles ==
  {NoFile, Unreadable, JsonFile(EmptyDocument), JsonFile(LegacyDocument),
   JsonFile(ReflectionsDocument(PredefinedReflections))}

\* json.load raised in load(), and so did the constructor.
LoadRaised == [present |-> FALSE, raised |-> TRUE]

\* __init__ (lines 96-120) with load (380-398): the library constructed on
\* the file, or LoadRaised when json.load raises.
NewLibrary(enable_persistence, file) ==
  IF ~enable_persistence
    THEN Library(FALSE, PredefinedReflections, << >>, {})
  ELSE IF file.kind = "absent"
    THEN Library(TRUE, PredefinedReflections, PredefinedReflections, SeedIds)
  ELSE IF file.kind = "unreadable"
    THEN LoadRaised
  ELSE Library(TRUE, PredefinedReflections, ReflectionsOf(file.data), {})

\* save (lines 365-378): the file after the call.
SavedFile(library, file) ==
  IF library.enable_persistence
    THEN JsonFile(ReflectionsDocument(library.reflections))
    ELSE file

\* record_usage on the built-in objects that are also stored ones.
SharedUpdate(library, entry_id, success) ==
  [i \in 1..Len(library.predefined) |->
     IF library.predefined[i].id = entry_id /\ entry_id \in library.shared
       THEN record_usage(library.predefined[i], success)
       ELSE library.predefined[i]]

\* Inputs of this section.
StoreAddInputs ==
  { [error_pattern |-> XNotFound, reflection |-> <<"zh_check_table">>],
    [error_pattern |-> CannotOpen7, reflection |-> <<"check", " ", "the", " ", "name">>] }

StoreUpdateIds ==
  { <<"pred_001">>, _generate_id(XNotFound, <<"zh_check_table">>), MissingId }

JsonDecodeFailed == <<"json", " ", "decode", " ", "failed">>

StoreFindMessages == {JsonDecodeFailed, XNotFound}

\* min_usage
MinUsages == {0, 1}

\* max_success_rate: the default 0.3, and 0.5.
MaxSuccessRates == {Rate(0, <<3>>), Rate(0, <<5>>)}

\* The stored entries that carry no built-in identifier.
NumCustom(reflections) ==
  Cardinality({i \in 1..Len(reflections) : reflections[i].id \notin SeedIds})

StoreInit ==
  /\ OrchestratorIdle
  /\ reflection_library = NoLibrary
  /\ storage \in [reflections : ReflectionFiles, history : {NoFile}]
  /\ call = NoCall

\* ReflectionLibrary(enable_persistence=...)
Construct ==
  /\ ~reflection_library.present
  /\ \E enable_persistence \in BOOLEAN :
       LET library == NewLibrary(enable_persistence, storage.reflections)
       IN /\ reflection_library' =
               IF library = LoadRaised THEN NoLibrary ELSE library
          /\ call' = [op |-> "ReflectionLibrary",
                      enable_persistence |-> enable_persistence,
                      raised |-> library = LoadRaised]
  /\ UNCHANGED <<orchestrator_vars, storage>>

StoreAdd ==
  /\ reflection_library.present
  /\ \E in \in StoreAddInputs, error_type \in {"parameter_error"},
        suggested_actions \in ActionLists :
       LET entry_id == _generate_id(in.error_pattern, in.reflection)
           existed == Stored(reflection_library.reflections, entry_id)
           library == [reflection_library EXCEPT !.reflections =
                         add_reflection(@, in.error_pattern, error_type,
                                        in.reflection, suggested_actions)]
       IN /\ existed \/ NumCustom(reflection_library.reflections) < MaxEntries
          /\ reflection_library' = library
          /\ storage' = [storage EXCEPT !.reflections = SavedFile(library, @)]
          /\ call' = [op |-> "add_reflection",
                      error_pattern |-> in.error_pattern,
                      error_type |-> error_type,
                      reflection |-> in.reflection,
                      suggested_actions |-> suggested_actions,
                      existed |-> existed,
                      result |-> entry_id]
  /\ UNCHANGED orchestrator_vars

StoreUpdate ==
  /\ reflection_library.present
  /\ \E entry_id \in StoreUpdateIds, success \in BOOLEAN :
       LET found == Stored(reflection_library.reflections, entry_id)
           library == [reflection_library EXCEPT
                         !.reflections = update_reflection(@, entry_id, success),
                         !.predefined = SharedUpdate(reflection_library,
                                                     entry_id, success)]
       IN /\ found => TotalUsage(reflection_library.reflections) < MaxLibUsage
          /\ reflection_library' = IF found THEN library ELSE reflection_library
          /\ storage' = IF found
                          THEN [storage EXCEPT !.reflections = SavedFile(library, @)]
                          ELSE storage
          /\ call' = [op |-> "update_reflection", entry_id |-> entry_id,
                      success |-> success, result |-> found]
  /\ UNCHANGED orchestrator_vars

\* library.cleanup_low_quality(min_usage, max_success_rate), lines 317-340
StoreCleanup ==
  /\ reflection_library.present
  /\ \E min_usage \in MinUsages, max_success_rate \in MaxSuccessRates :
       LET kept == cleanup_low_quality(reflection_library.reflections,
                                       min_usage, max_success_rate)
           to_remove == Len(reflection_library.reflections) - Len(kept)
           library == [reflection_library EXCEPT
                         !.reflections = kept,
                         !.shared = {id \in @ : Stored(kept, id)}]
       IN /\ reflection_library' = library
          /\ storage' = IF to_remove > 0
                          THEN [storage EXCEPT !.reflections = SavedFile(library, @)]
                          ELSE storage
          /\ call' = [op |-> "cleanup_low_quality", min_usage |-> min_usage,
                      max_success_rate |-> max_success_rate,
                      result |-> to_remove]
  /\ UNCHANGED orchestrator_vars

StoreFind ==
  /\ reflection_library.present
  /\ \E error_message \in StoreFindMessages :
       call' = [op |-> "find_reflection", error_message |-> error_message,
                error_type |-> NoType,
                result |-> find_reflection_in(reflection_library.predefined,
                                              reflection_library.reflections,
                                              error_message, NoType)]
  /\ UNCHANGED reflection_library
  /\ UNCHANGED <<orchestrator_vars, storage>>

StoreNext ==
  \/ Construct
  \/ StoreAdd
  \/ StoreUpdate
  \/ StoreCleanup
  \/ StoreFind

StoreSpec == StoreInit /\ [][StoreNext]_vars

(***************************************************************************)
(* Direct calls of a ContextManager with its file: start_task, add_step,   *)
(* save, load, and a new ContextManager on the same path.                  *)
(***************************************************************************)
\* ContextManager(max_steps, max_history, enable_persistence)
StoreConfigs ==
  [max_steps : {MaxStepsBound}, max_history : 0..MaxHistoryBound,
   early_stop_threshold : {3}, enable_persistence : BOOLEAN]

\* The arguments of add_step.
StepInputs ==
  { [action |-> ActionText("search"), observation |-> <<"42">>,
     tool_name |-> "search", reflection |-> None, status |-> "success"],
    [action |-> ActionText("search"),
     observation |-> <<"error", ":", " ", "boom">>,
     tool_name |-> "search", reflection |-> <<"zh_retry">>,
     status |-> "failed"],
    [action |-> <<"think">>, observation |-> <<"42">>,
     tool_name |-> NullName, reflection |-> None, status |-> "success"] }

\* The store as it was when save() last wrote the file, with the entries
\* appended up to then (a history variable carried in call).
NoSnapshot == [saved |-> FALSE]

Persisted == IF "persisted" \in DOMAIN call THEN call.persisted ELSE NoSnapshot

StoreState == [task |-> task, current_step |-> current_step, stats |-> stats,
               history |-> history]

HistoryInit ==
  /\ config \in StoreConfigs
  /\ tools = <<"search">>
  /\ event_loop = NoLoop
  /\ task = None
  /\ history = << >>
  /\ current_step = 0
  /\ stats = EmptyStats
  /\ consecutive_failures = 0
  /\ final_answer = None
  /\ decision = NoDecision
  /\ execution_result = NoResult
  /\ summary = << >>
  /\ pc = "idle"
  /\ exit = "none"
  /\ runs = 0
  /\ log = << >>
  /\ decisions = 0
  /\ invocations = 0
  /\ reflect_calls = 0
  /\ reflection_library = NoLibrary
  /\ storage \in [reflections : {NoFile}, history : {NoFile, Unreadable}]
  /\ call = NoCall

\* What the calls of this section leave alone.
run_vars ==
  <<event_loop, config, tools, consecutive_failures, final_answer, decision,
    execution_result, summary, pc, exit, runs, decisions, invocations,
    reflect_calls, reflection_library>>

\* ContextManager(...) again, on the same path (lines 72-106).
NewContextManager ==
  /\ task' = None
  /\ history' = << >>
  /\ current_step' = 0
  /\ stats' = EmptyStats
  /\ log' = << >>
  /\ call' = [op |-> "ContextManager", persisted |-> Persisted]
  /\ UNCHANGED <<run_vars, storage>>

\* start_task(task), lines 108-125
StartTask ==
  /\ \E t \in Tasks : task' = t
  /\ history' = << >>
  /\ current_step' = 0
  /\ stats' = EmptyStats
  /\ log' = << >>
  /\ call' = [op |-> "start_task", persisted |-> Persisted]
  /\ UNCHANGED <<run_vars, storage>>

\* add_step(action, observation, tool_name, reflection, status), lines 127-183
AddStep ==
  /\ current_step < MaxHistoryBound
  /\ \E in \in StepInputs :
       LET entry == MemoryEntry(NextStepNumber(history, current_step),
                                in.action, in.tool_name, in.observation,
                                in.reflection, in.status)
       IN /\ current_step' = NextStepNumber(history, current_step)
          /\ history' = LimitHistory(Append(history, entry), config.max_history)
          /\ log' = Append(log, entry)
          /\ stats' = UpdateStats(stats, in.tool_name, in.status)
  /\ call' = [op |-> "add_step", persisted |-> Persisted]
  /\ UNCHANGED <<run_vars, storage, task>>

\* save(), lines 297-311
Save ==
  /\ storage' = [storage EXCEPT !.history =
                   SavedHistory(config.enable_persistence, task, current_step,
                                stats, history, @)]
  /\ call' = [op |-> "save",
              persisted |-> IF config.enable_persistence
                              THEN [saved |-> TRUE, store |-> StoreState,
                                    appended |-> log]
                              ELSE Persisted]
  /\ UNCHANGED <<run_vars, task, history, current_step, stats, log>>

\* load(), lines 313-332: nothing without persistence or without the file;
\* json.load raises on a file that is no JSON document.
Load ==
  LET file == storage.history
      reads == config.enable_persistence /\ file.kind # "absent"
      raised == reads /\ file.kind = "unreadable"
      restores == reads /\ ~raised
      store == IF restores THEN RestoredStore(file.data) ELSE StoreState
  IN /\ task' = store.task
     /\ current_step' = store.current_step
     /\ stats' = store.stats
     /\ history' = store.history
     /\ log' = IF restores THEN Persisted.appended ELSE log
     /\ call' = [op |-> "load", raised |-> raised, restored |-> restores,
                 changed |-> store # StoreState, persisted |-> Persisted]
     /\ UNCHANGED <<run_vars, storage>>

HistoryNext ==
  \/ NewContextManager
  \/ StartTask
  \/ AddStep
  \/ Save
  \/ Load

HistorySpec == HistoryInit /\ [][HistoryNext]_vars

(***************************************************************************)
(* Two orchestrators on one event loop, each called with run() once.  The  *)
(* variables of the orchestrator hold the state of the coroutine that      *)
(* runs; the state of the other one waits in event_loop.suspended.  The    *)
(* catalog, the library and the files are the same objects for both.       *)
(***************************************************************************)
\* What one orchestrator owns: its config, its ContextManager (lines
\* 95-100) and the locals of its run().
Owned ==
  [config |-> config, task |-> task, history |-> history,
   current_step |-> current_step, stats |-> stats,
   consecutive_failures |-> consecutive_failures,
   final_answer |-> final_answer, decision |-> decision,
   execution_result |-> execution_result, summary |-> summary, pc |-> pc,
   exit |-> exit, runs |-> runs, log |-> log, decisions |-> decisions,
   invocations |-> invocations, reflect_calls |-> reflect_calls]

\* ReflexionOrchestrator(llm, tools, config): nothing has run.
Constructed(c) ==
  [config |-> c, task |-> None, history |-> << >>, current_step |-> 0,
   stats |-> EmptyStats, consecutive_failures |-> 0, final_answer |-> None,
   decision |-> NoDecision, execution_result |-> NoResult, summary |-> << >>,
   pc |-> "idle", exit |-> "none", runs |-> 0, log |-> << >>, decisions |-> 0,
   invocations |-> 0, reflect_calls |-> 0]

\* The configurations of the two orchestrators.
PairConfigs ==
  { [max_steps |-> 2, max_history |-> 1, early_stop_threshold |-> 2,
     enable_persistence |-> TRUE],
    [max_steps |-> 1, max_history |-> 0, early_stop_threshold |-> 1,
     enable_persistence |-> FALSE] }

\* The positions at which run() is suspended: not called yet, at one of
\* its awaits (lines 143, 156, 190, 215), returned, or left by an exception.
SuspensionPoints ==
  {"idle", "decide", "execute", "reflect", "continue", "done", "raised"}

\* One ContextManager for both orchestrators: the resumed coroutine finds
\* the store as the other one left it.
ResumedOnSharedStore(state, current) ==
  [state EXCEPT !.task = current.task, !.history = current.history,
                !.current_step = current.current_step,
                !.stats = current.stats]

\* self.context_manager = ContextManager(...) (lines 95-100) and the locals
\* of run(): the resumed coroutine finds its state as it left it.
Resumed(state, current) == state

PairInit ==
  /\ \E c \in PairConfigs :
       /\ config = c
       /\ event_loop = [running |-> 1,
                        suspended |-> << Constructed(CHOOSE d \in PairConfigs : d # c) >>]
  /\ tools = <<"search">>
  /\ reflection_library = DefaultLibrary
  /\ task = None
  /\ history = << >>
  /\ current_step = 0
  /\ stats = EmptyStats
  /\ consecutive_failures = 0
  /\ final_answer = None
  /\ decision = NoDecision
  /\ execution_result = NoResult
  /\ summary = << >>
  /\ pc = "idle"
  /\ exit = "none"
  /\ runs = 0
  /\ log = << >>
  /\ decisions = 0
  /\ invocations = 0
  /\ reflect_calls = 0
  /\ call = NoCall
  /\ storage = NoStorage

\* The coroutine that runs goes on to its next await.
RunStep ==
  /\ Next
  /\ runs' <= 1

\* The coroutine that runs is suspended at an await and the event loop
\* resumes the other one.
Switch ==
  /\ pc \in SuspensionPoints
  /\ LET state == Resumed(event_loop.suspended[1], Owned)
     IN /\ config' = state.config
        /\ task' = state.task
        /\ history' = state.history
        /\ current_step' = state.current_step
        /\ stats' = state.stats
        /\ consecutive_failures' = state.consecutive_failures
        /\ final_answer' = state.final_answer
        /\ decision' = state.decision
        /\ execution_result' = state.execution_result
        /\ summary' = state.summary
        /\ pc' = state.pc
        /\ exit' = state.exit
        /\ runs' = state.runs
        /\ log' = state.log
        /\ decisions' = state.decisions
        /\ invocations' = state.invocations
        /\ reflect_calls' = state.reflect_calls
  /\ event_loop' = [running |-> 3 - event_loop.running,
                    suspended |-> << Owned >>]
  /\ UNCHANGED <<tools, reflection_library, storage, call>>

PairNext ==
  \/ RunStep
  \/ Switch

PairSpec == PairInit /\ [][PairNext]_vars

(***************************************************************************)
(* Two coroutines of one event loop (runs, through a callback or a tool)   *)
(* call update_reflection on the same entry of a shared library.  A call   *)
(* is taken apart into the reads and writes of record_usage; call holds    *)
(* the frame of the coroutine that runs, event_loop.suspended the frame of *)
(* the other one, event_loop.issued the success flags in call order.       *)
(***************************************************************************)
\* A coroutine between two calls, suspended or ready to call.
Awaiting == [op |-> "await"]

SharedEntryId == _generate_id(XNotFound, <<"zh_check_table">>)

\* The frame may be suspended with its call half way through.
MaySuspendAnywhere(frame) == TRUE

\* update_reflection, record_usage and save (lines 292-315, 68-81, 365-378)
\* are plain functions without an await: a coroutine is suspended only
\* between two calls.
MaySuspend(frame) == frame.op = "await"

caller_vars ==
  <<config, tools, task, history, current_step, stats, consecutive_failures,
    final_answer, decision, execution_result, summary, pc, exit, runs, log,
    decisions, invocations, reflect_calls>>

SharedInit ==
  /\ config = DefaultConfig
  /\ tools = <<"search">>
  /\ task = None
  /\ history = << >>
  /\ current_step = 0
  /\ stats = EmptyStats
  /\ consecutive_failures = 0
  /\ final_answer = None
  /\ decision = NoDecision
  /\ execution_result = NoResult
  /\ summary = << >>
  /\ pc = "idle"
  /\ exit = "none"
  /\ runs = 0
  /\ log = << >>
  /\ decisions = 0
  /\ invocations = 0
  /\ reflect_calls = 0
  /\ \E enable_persistence \in BOOLEAN :
       reflection_library =
         Library(enable_persistence, PredefinedReflections,
                 add_reflection(<< >>, XNotFound, "parameter_error",
                                <<"zh_check_table">>, << <<"verify">> >>),
                 {})
  /\ storage = NoStorage
  /\ call = Awaiting
  /\ event_loop = [running |-> 1, suspended |-> << Awaiting >>,
                   issued |-> << >>]

\* update_reflection(entry_id, success) is called: line 307 finds the entry
\* and line 75 reads its usage_count.
BeginUpdate ==
  /\ call.op = "await"
  /\ Len(event_loop.issued) < MaxCalls
  /\ \E success \in BOOLEAN :
       /\ call' = [op |-> "update_reflection", entry_id |-> SharedEntryId,
                   success |-> success, at |-> "count",
                   loaded |-> EntryOf(reflection_library.reflections,
                                      SharedEntryId).usage_count]
       /\ event_loop' = [event_loop EXCEPT !.issued = Append(@, success)]
  /\ UNCHANGED <<caller_vars, reflection_library, storage>>

\* line 75: usage_count is written; line 81 reads success_rate.
WriteCount ==
  /\ call.op = "update_reflection"
  /\ call.at = "count"
  /\ reflection_library' =
       [reflection_library EXCEPT !.reflections =
          [i \in 1..Len(@) |->
             IF @[i].id = call.entry_id
               THEN [@[i] EXCEPT !.usage_count = call.loaded + 1]
               ELSE @[i]]]
  /\ call' = [call EXCEPT !.at = "rate",
                          !.loaded = EntryOf(reflection_library.reflections,
                                             call.entry_id).success_rate]
  /\ UNCHANGED <<caller_vars, event_loop, storage>>

\* line 81: success_rate is written.
WriteRate ==
  /\ call.op = "update_reflection"
  /\ call.at = "rate"
  /\ reflection_library' =
       [reflection_library EXCEPT !.reflections =
          [i \in 1..Len(@) |->
             IF @[i].id = call.entry_id
               THEN [@[i] EXCEPT !.success_rate =
                       PlusTenths(decayed(call.loaded),
                                  alpha * current_rate(call.success))]
               ELSE @[i]]]
  /\ call' = [call EXCEPT !.at = "save"]
  /\ UNCHANGED <<caller_vars, event_loop, storage>>

\* lines 310-313: save() and return True.
SaveAndReturn ==
  /\ call.op = "update_reflection"
  /\ call.at = "save"
  /\ storage' = [storage EXCEPT !.reflections =
                   SavedFile(reflection_library, @)]
  /\ call' = Awaiting
  /\ UNCHANGED <<caller_vars, event_loop, reflection_library>>

\* The event loop suspends the coroutine that runs and resumes the other.
SwitchCaller ==
  /\ MaySuspend(call)
  /\ call' = event_loop.suspended[1]
  /\ event_loop' = [event_loop EXCEPT !.running = 3 - @,
                                      !.suspended = << call >>]
  /\ UNCHANGED <<caller_vars, reflection_library, storage>>

SharedNext ==
  \/ BeginUpdate
  \/ WriteCount
  \/ WriteRate
  \/ SaveAndReturn
  \/ SwitchCaller

SharedSpec == SharedInit /\ [][SharedNext]_vars

(***************************************************************************)
(* Properties.                                                             *)
(***************************************************************************)
\* The last n entries of s (all of s when it is shorter).
LastN(s, n) == SubSeq(s, Max(Len(s) - n, 0) + 1, Len(s))

\* The number of failed entries at the end of s.
RECURSIVE TrailingFailures(_)
TrailingFailures(s) ==
  IF s = << >> \/ Last(s).status # "failed" THEN 0
  ELSE 1 + TrailingFailures(SubSeq(s, 1, Len(s) - 1))

Returned == pc = "done" /\ summary # << >>

\* C1: the summary's total_steps is the number of step records add_step
\* appended during the run, and that number never exceeds max_steps.
C1_TotalStepsCountsAppends ==
  /\ Len(log) <= config.max_steps
  /\ Returned => summary[1].total_steps = Len(log)

C1_Witness ==
  /\ Returned
  /\ summary[1].total_steps = config.max_steps
  /\ config.max_steps >= 3
  /\ Len(history) < Len(log)

\* C2: the retained history holds at most max_history records, and once more
\* than max_history were appended it is exactly the max_history most recent
\* ones, in append order.
C2_HistoryBounded ==
  /\ Len(history) <= config.max_history
  /\ Len(log) > config.max_history => history = LastN(log, config.max_history)

\* C3: with max_history >= 1, whenever the three most recently appended
\* records have the same action text and the same observation text,
\* should_stop() is true at the head of the loop, also below the step budget.
C3_LoopForcesStop ==
  ( /\ config.max_history >= 1
    /\ pc = "loop"
    /\ current_step < config.max_steps
    /\ Len(log) >= 3
    /\ \A i \in (Len(log) - 2)..Len(log) :
         /\ log[i].action = Last(log).action
         /\ log[i].observation = Last(log).observation )
  => should_stop(history, current_step, config.max_steps)

\* C4: every run produces its summary, after at most max_steps iterations
\* of the loop (every iteration requests one decision).
C4_RunReturnsSummary ==
  (pc = "loop") ~> (Returned /\ decisions <= config.max_steps)

\* C5: the consecutive-failure counter is the number of failed steps since
\* the last successful one; once a step brings it to early_stop_threshold
\* the loop is left with no further decision requested, and the summary has
\* success = false and a null final answer.
C5_EarlyStop ==
  /\ pc # "record" => consecutive_failures = TrailingFailures(log)
  /\ (Len(log) >= 1 /\ TrailingFailures(log) >= config.early_stop_threshold)
       => /\ pc \in {"summary", "done"}
          /\ exit = "consecutive_failures"
          /\ decisions = Len(log)
          /\ final_answer = None
          /\ Returned => /\ summary[1].success = FALSE
                         /\ summary[1].final_answer = None

C5_Witness ==
  /\ Returned
  /\ exit = "consecutive_failures"
  /\ config.early_stop_threshold = 2
  /\ Len(log) >= 4
  /\ \E i \in 1..Len(log) : log[i].status = "success"
  /\ summary[1].success = FALSE

\* C6: the step that reached the consecutive-failure threshold keeps a null
\* reflection and the reflector is not called for it; every other appended
\* step has its reflection attached before the next decision is requested
\* or the run ends.
C6_ReflectionAttached ==
  /\ exit = "consecutive_failures"
       => /\ Last(log).reflection = None
          /\ Last(history).reflection = None
          /\ reflect_calls = Len(log) - 1
  /\ \A i \in 1..Len(log) :
       log[i].reflection = None
         => i = Len(log) /\ (pc = "reflect" \/ exit = "consecutive_failures")
  /\ \A i \in 1..Len(history) :
       history[i].reflection = None
         => i = Len(history) /\ (pc = "reflect" \/ exit = "consecutive_failures")

C6_Witness ==
  /\ Returned
  /\ exit = "consecutive_failures"
  /\ Len(log) >= 3
  /\ Last(log).reflection = None
  /\ \A i \in 1..(Len(log) - 1) : log[i].reflection # None

\* C7: no fault escapes run(): whatever the oracle answers and whatever the
\* tools do, run() returns a summary and never raises.
C7_NoFaultEscapes == pc # "raised"

\* C8: _parse_decision yields a tool_call or a final_answer decision for
\* every response of the oracle and never raises.
C8_ParserTotal ==
  decision.action_type \in {NoDecision.action_type, "tool_call", "final_answer"}

\* C9: a decision naming a tool that is not in the catalog invokes no tool,
\* appends a failed step and, unless the consecutive-failure threshold or the
\* step budget is reached, is followed by another decision request.
C9_UnknownToolContinues ==
  /\ invocations = Cardinality({i \in 1..Len(log) : InCatalog(log[i].tool_name, tools)})
                     + (IF pc = "record" /\ InCatalog(decision.tool_name, tools)
                          THEN 1 ELSE 0)
  /\ (Len(log) >= 1 /\ ~InCatalog(Last(log).tool_name, tools))
       => /\ Last(log).status = "failed"
          /\ pc \in {"summary", "done"}
               => \/ consecutive_failures >= config.early_stop_threshold
                  \/ current_step >= config.max_steps
                  \/ decisions > Len(log)

\* C10: when should_continue returns false for a step, the run ends with
\* that step's observation as final answer; no further decision is requested
\* and no further step is appended.
C10_ReflectorStop ==
  ( /\ Len(log) >= 1
    /\ pc \notin {"reflect", "continue", "raised"}
    /\ Last(log).reflection # None
    /\ ~should_continue(Last(log).reflection, Last(log).observation) )
  => /\ pc \in {"summary", "done"}
     /\ final_answer = Last(log).observation
     /\ decisions = Len(log)
     /\ current_step = Len(log)
     /\ Returned => /\ summary[1].final_answer = Last(log).observation
                    /\ summary[1].total_steps = Len(log)

C10_Witness ==
  /\ Returned
  /\ exit = "reflector_stop"
  /\ Len(log) >= 2
  /\ summary[1].final_answer = Last(log).observation
  /\ summary[1].final_answer # EmptyText

\* C11: the summary's final_answer is null exactly when the loop was left by
\* the step budget, the loop detection or the consecutive-failure threshold,
\* and non-null exactly when it was left by a final-answer decision or by
\* the reflector saying stop.
C11_FinalAnswerNullness ==
  Returned =>
    /\ summary[1].final_answer = None
         <=> exit \in {"step_budget", "loop_detected", "consecutive_failures"}
    /\ summary[1].final_answer # None
         <=> exit \in {"final_answer", "reflector_stop"}

C11_Witness ==
  /\ Returned
  /\ exit = "final_answer"
  /\ Len(log) >= 1
  /\ summary[1].final_answer = TaskDoneText

\* C12: a run whose first step failed and whose second step succeeded, and
\* which then completed (by a final-answer decision or by the reflector
\* saying stop), reports successful_steps = 1, failed_steps = 1,
\* success = true and a non-null final answer equal to the observation of
\* the successful step.
C12_FailThenSucceed ==
  ( /\ Returned
    /\ exit \in {"final_answer", "reflector_stop"}
    /\ Len(log) = 2
    /\ log[1].status = "failed"
    /\ log[2].status = "success" )
  => /\ summary[1].successful_steps = 1
     /\ summary[1].failed_steps = 1
     /\ summary[1].success = TRUE
     /\ summary[1].final_answer # None
     /\ summary[1].final_answer = log[2].observation

\* C13: whenever the reflection text or the observation text contains a
\* completion marker, should_continue returns false, also when the
\* reflection contains a continuation marker or the observation an error
\* indicator.
C13_CompletionMarkersWin ==
  ( /\ call.op = "should_continue"
    /\ \/ ContainsAny(call.reflection, stop_keywords)
       \/ ContainsAny(call.observation, stop_keywords)
       \/ ContainsAny(Lower(call.reflection), stop_keywords)
       \/ ContainsAny(Lower(call.observation), stop_keywords) )
  => call.result = FALSE

C13_Witness ==
  /\ call.op = "should_continue"
  /\ ContainsAny(Lower(call.observation), stop_keywords)
  /\ ~ContainsAny(Lower(call.reflection), stop_keywords)
  /\ ContainsAny(Lower(call.reflection), continue_keywords)
  /\ ContainsAny(Lower(call.observation), error_indicators)
  /\ call.result = FALSE

\* The stored entries with the signature and the reflection text of the call.
SameContent(reflections, c) ==
  {i \in 1..Len(reflections) :
     /\ reflections[i].error_pattern = c.error_pattern
     /\ reflections[i].reflection = c.reflection}

\* C14: after a call of add there is exactly one stored entry with the
\* call's signature and reflection text, and when such an entry was stored
\* before the call (an earlier add with the same pair) the number of stored
\* entries is the same after the call as before it.
C14_AddTwiceOneEntry ==
  [][ call'.op = "add_reflection" =>
        /\ Cardinality(SameContent(reflection_library'.reflections, call')) = 1
        /\ SameContent(reflection_library.reflections, call') # {}
             => Len(reflection_library'.reflections)
                  = Len(reflection_library.reflections) ]_vars

C14_Witness ==
  /\ call.op = "add_reflection"
  /\ call.existed
  /\ Len(reflection_library.reflections) = 2
  /\ Cardinality(SameContent(reflection_library.reflections, call)) = 1
  /\ reflection_library.reflections[1].id = call.result

\* C15: add on an identifier that is already stored changes nothing: the
\* entry keeps its usage count, success rate, category and suggested
\* actions, also when usages were recorded on it since it was added; add on
\* an absent identifier stores a new entry with usage count 0 and success
\* rate 0.
C15_AddExistingIsNoOp ==
  [][ call'.op = "add_reflection" =>
        IF Stored(reflection_library.reflections, call'.result)
          THEN reflection_library'.reflections = reflection_library.reflections
          ELSE /\ Len(reflection_library'.reflections)
                    = Len(reflection_library.reflections) + 1
               /\ EntryOf(reflection_library'.reflections,
                          call'.result).usage_count = 0
               /\ EntryOf(reflection_library'.reflections,
                          call'.result).success_rate = ZeroRate ]_vars

\* The built-in entries whose signature occurs in the message, whatever the
\* case of the letters.
SeedsIn(error_message) ==
  {i \in 1..Len(PredefinedReflections) :
     Contains(Lower(error_message), Lower(PredefinedReflections[i].error_pattern))}

MinOf(S) == CHOOSE i \in S : \A j \in S : i <= j

\* C16: whenever the signature of a built-in entry occurs in the error
\* message, find returns the first such built-in entry in list order,
\* whatever custom entries are stored and whether or not a category filter
\* is given.
C16_SeedPriority ==
  (call.op = "find_reflection" /\ SeedsIn(call.error_message) # {})
    => call.result = PredefinedReflections[MinOf(SeedsIn(call.error_message))]

\* C16 (amended): find returns the first built-in entry, in list order, whose
\* signature occurs in the error message and whose category is the filter's
\* when a filter is given, whatever custom entries are stored; a built-in
\* entry of another category than the filter's is passed over.
C16_SeedPriorityWithinFilter ==
  call.op = "find_reflection" =>
    LET hits == {i \in SeedsIn(call.error_message) :
                   \/ call.error_type = NoType
                   \/ PredefinedReflections[i].error_type = call.error_type}
    IN hits # {} => call.result = PredefinedReflections[MinOf(hits)]

C16_Witness ==
  /\ call.op = "find_reflection"
  /\ call.error_message = CannotOpenTimeout
  /\ call.error_type = "timeout_error"
  /\ \E i \in 1..Len(reflection_library.reflections) :
       /\ reflection_library.reflections[i].error_pattern = CannotOpen8
       /\ reflection_library.reflections[i].error_type = "timeout_error"
  /\ call.result.id = <<"pred_004">>

\* len(words1 & words2) and len(words1 | words2) of two texts.
Common(text1, text2) == Cardinality(WordSet(text1) \cap WordSet(text2))
All(text1, text2) == Cardinality(WordSet(text1) \cup WordSet(text2))

\* C17: when no built-in signature occurs in the message, find returns the
\* stored entry, within the category filter if one is given, of highest
\* token-set Jaccard similarity among those at or above the threshold, the
\* earliest inserted one among equals, and returns none exactly when no
\* such entry reaches the threshold.
C17_BestCustomMatch ==
  (call.op = "find_reflection" /\ SeedsIn(call.error_message) = {}) =>
    LET R == reflection_library.reflections
        num(i) == Common(call.error_message, R[i].error_pattern)
        den(i) == All(call.error_message, R[i].error_pattern)
        cands == {i \in 1..Len(R) :
                    /\ \/ call.error_type = NoType
                       \/ R[i].error_type = call.error_type
                    /\ 100 * num(i) >= similarity_threshold * den(i)}
    IN IF cands = {} THEN call.result = NoEntry
       ELSE \E i \in cands :
              /\ call.result = R[i]
              /\ \A j \in cands :
                   /\ num(j) * den(i) <= num(i) * den(j)
                   /\ num(j) * den(i) = num(i) * den(j) => i <= j

C17_Witness ==
  /\ call.op = "find_reflection"
  /\ call.error_message = CannotOpen10
  /\ call.error_type = NoType
  /\ Len(reflection_library.reflections) = 2
  /\ reflection_library.reflections[1].error_pattern = CannotOpen7Cap
  /\ reflection_library.reflections[2].error_pattern = CannotOpen7
  /\ 100 * Common(CannotOpen10, CannotOpen7) = similarity_threshold * All(CannotOpen10, CannotOpen7)
  /\ call.result = reflection_library.reflections[1]

\* C18: with the default threshold, once an entry with the signature
\* "X not found" has been added, find("Error: X not found in table")
\* returns that entry.
C18_FindAfterAdd ==
  ( /\ call.op = "find_reflection"
    /\ call.error_message = XNotFoundInTable
    /\ call.error_type = NoType
    /\ \E i \in 1..Len(reflection_library.reflections) :
         reflection_library.reflections[i].error_pattern = XNotFound )
  => call.result.error_pattern = XNotFound

RECURSIVE Pow10(_)
Pow10(n) == IF n = 0 THEN 1 ELSE 10 * Pow10(n - 1)

\* The rate times 10^n as an integer, for a rate of at most n decimals.
RECURSIVE ScaledFrac(_, _)
ScaledFrac(frac, n) ==
  IF frac = << >> THEN 0
  ELSE Head(frac) * Pow10(n - 1) + ScaledFrac(Tail(frac), n - 1)

Scaled(rate, n) == rate.whole * Pow10(n) + ScaledFrac(rate.frac, n)

OneRate == Rate(1, << >>)

\* 0 <= rate <= 1
InUnit(rate) == ~RateLess(rate, ZeroRate) /\ ~RateLess(OneRate, rate)

\* C19: the success rate of an entry, 0 when add stored it, stays within
\* [0,1] under any sequence of recordUsage calls; each call adds exactly one
\* to the usage count and sets the rate to 0.3 * (1 if success else 0)
\* + 0.7 * rate (compared as integers, in units of 10^-(n+1), for the first
\* eight calls on an entry).
C19_RateInUnitInterval ==
  [][ call'.op = "update_reflection" =>
        LET old == reflection_library.reflections[1]
            new == reflection_library'.reflections[1]
            n == old.usage_count
            s == IF call'.success THEN 1 ELSE 0
        IN /\ new.usage_count = n + 1
           /\ new.usage_count = Len(call'.outcomes)
           /\ InUnit(old.success_rate)
           /\ InUnit(new.success_rate)
           /\ n <= 7 => Scaled(new.success_rate, n + 1)
                          = 3 * s * Pow10(n) + 7 * Scaled(old.success_rate, n)
     ]_vars

C19_Witness ==
  /\ call.op = "update_reflection"
  /\ Len(call.outcomes) >= 5
  /\ \E i, j \in 1..Len(call.outcomes) : call.outcomes[i] /\ ~call.outcomes[j]
  /\ reflection_library.reflections[1].usage_count = Len(call.outcomes)
  /\ RateLess(ZeroRate, reflection_library.reflections[1].success_rate)
  /\ RateLess(reflection_library.reflections[1].success_rate, OneRate)

\* C20: a recordUsage(success=true) call never lowers the success rate,
\* raises it while it is below 1 and keeps it at most 1; after 10 successes
\* in a row on an entry of rate 0 the rate is above 0.95; a
\* recordUsage(success=false) call never raises the rate and lowers it
\* while it is above 0.
C20_RateMonotone ==
  [][ call'.op = "update_reflection" =>
        LET old == reflection_library.reflections[1].success_rate
            new == reflection_library'.reflections[1].success_rate
        IN /\ call'.success =>
                /\ ~RateLess(new, old)
                /\ ~RateLess(OneRate, new)
                /\ RateLess(old, OneRate) => RateLess(old, new)
           /\ ~call'.success =>
                /\ ~RateLess(old, new)
                /\ ~RateLess(new, ZeroRate)
                /\ RateLess(ZeroRate, old) => RateLess(new, old)
           /\ ( /\ Len(call'.outcomes) >= 10
                /\ \A i \in 1..Len(call'.outcomes) : call'.outcomes[i] )
                => RateLess(Rate(0, <<9, 5>>), new)
     ]_vars

C20_Witness ==
  /\ call.op = "update_reflection"
  /\ Len(call.outcomes) = 10
  /\ \A i \in 1..10 : call.outcomes[i]
  /\ RateLess(Rate(0, <<9, 5>>), reflection_library.reflections[1].success_rate)
  /\ RateLess(reflection_library.reflections[1].success_rate, OneRate)

\* The step result r reports the step record e.
Reports(r, e) ==
  /\ r.step_number = e.step_number
  /\ r.action = e.action
  /\ r.tool_name = e.tool_name
  /\ r.observation = e.observation
  /\ r.reflection = e.reflection
  /\ r.is_success = (e.status = "success")

\* C27: the summary's history holds every step record appended during the
\* run, in order, so its length is total_steps, for every max_steps and
\* max_history.
C27_SummaryHistoryFull ==
  Returned =>
    /\ Len(summary[1].history) = Len(log)
    /\ Len(summary[1].history) = summary[1].total_steps
    /\ \A i \in 1..Len(log) : Reports(summary[1].history[i], log[i])

\* What the summary's history is: the history the store retains when the
\* run ends, in append order, that is the most recent appended records,
\* and all of them when no more than max_history were appended.
C27_SummaryHistoryRetained ==
  Returned =>
    LET H == summary[1].history
        n == Len(H)
    IN /\ n = Len(history)
       /\ n <= Len(log)
       /\ \A i \in 1..n : Reports(H[i], log[Len(log) - n + i])
       /\ Len(log) <= config.max_history => n = Len(log)
       /\ n = Len(log) => n = summary[1].total_steps

\* C28: the k-th record appended in a run carries sequence number k, and
\* the sequence numbers of the retained history are consecutive, strictly
\* increasing and end at the step counter, also after evictions.
C28_SequenceNumbers ==
  /\ Len(log) = current_step
  /\ \A k \in 1..Len(log) : log[k].step_number = k
  /\ \A i \in 1..(Len(history) - 1) :
       history[i + 1].step_number = history[i].step_number + 1
  /\ Len(history) > 0 => Last(history).step_number = current_step

C28_Witness ==
  /\ Len(log) = 4
  /\ Len(history) = 2
  /\ history[1].step_number = 3
  /\ history[2].step_number = 4

\* The last three records of h share one action text and one observation
\* text.
LoopSeen(h) ==
  /\ Len(h) >= 3
  /\ \A i \in (Len(h) - 2)..Len(h) :
       /\ h[i].action = h[Len(h)].action
       /\ h[i].observation = h[Len(h)].observation

\* C29: should_stop() has no false positives: evaluated with the step
\* counter below max_steps and without three last records sharing action
\* and observation, it returns false and the loop goes on to the decision.
C29_NoFalseStop ==
  [][(pc = "loop" /\ current_step < config.max_steps /\ ~LoopSeen(history))
       => pc' = "decide"]_vars

C29_Witness ==
  /\ pc = "decide"
  /\ Len(history) >= 3
  /\ \A i \in (Len(history) - 2)..Len(history) :
       history[i].action = Last(history).action
  /\ history[Len(history) - 1].observation # Last(history).observation

\* C30: every decision request is immediately preceded by an evaluation of
\* should_stop() that returned false: control reaches the decision only
\* from the loop test, on the state the test saw, and no decision is
\* requested with the step budget reached or a loop detected.
C30_StopTestBeforeDecision ==
  [][/\ pc' = "decide" =>
          /\ pc = "loop"
          /\ ~should_stop(history, current_step, config.max_steps)
          /\ history' = history
          /\ current_step' = current_step
     /\ decisions' = decisions + 1 =>
          /\ pc = "decide"
          /\ current_step < config.max_steps
          /\ ~LoopSeen(history)]_vars

C30_Witness ==
  /\ decisions = 3
  /\ current_step = 2
  /\ pc = "execute"

\* C21: cleanup(min_usage, max_success_rate) removes exactly the stored
\* entries with usage_count >= min_usage and success_rate < max_success_rate,
\* keeps every other entry unchanged and in order, and returns the number
\* of entries removed.
C21_CleanupRemovesExactly ==
  [][call'.op = "cleanup_low_quality" =>
       LET before == reflection_library.reflections
           after == reflection_library'.reflections
           low == {i \in 1..Len(before) :
                     /\ before[i].usage_count >= call'.min_usage
                     /\ RateLess(before[i].success_rate,
                                 call'.max_success_rate)}
           keep == (1..Len(before)) \ low
       IN /\ call'.result = Cardinality(low)
          /\ Len(after) = Cardinality(keep)
          /\ \A i \in keep :
               after[Cardinality({j \in keep : j <= i})] = before[i]]_vars

\* A cleanup that removed one entry and kept another one: the kept entry
\* was never used, the call asked for one usage.
C21_Witness ==
  /\ call.op = "cleanup_low_quality"
  /\ call.min_usage = 1
  /\ call.result = 1
  /\ \E i \in 1..Len(reflection_library.reflections) :
       /\ reflection_library.reflections[i].usage_count = 0
       /\ reflection_library.reflections[i].success_rate = ZeroRate

\* C22: no add, update or cleanup call removes a stored entry that
\* carries a built-in identifier, in any configuration of the library.
C22_SeedsNeverRemoved ==
  [][reflection_library.present =>
       \A id \in SeedIds :
         Stored(reflection_library.reflections, id)
           => Stored(reflection_library'.reflections, id)]_vars

\* The second half of C22: find returns the built-in entry pred_001 for a
\* message containing its signature, whatever was added, used or cleaned.
C22_SeedStillFound ==
  (call.op = "find_reflection" /\ call.error_message = JsonDecodeFailed)
    => call.result.id = <<"pred_001">>

\* C26: constructing a library on a file that is missing or cannot be
\* decoded does not raise and gives the first-run library.
C26_LoadFailureIsFirstRun ==
  [][call'.op = "ReflectionLibrary" =>
       /\ ~call'.raised
       /\ (call'.enable_persistence
             /\ storage.reflections.kind \in {"absent", "unreadable"})
            => reflection_library' =
                 Library(TRUE, PredefinedReflections, PredefinedReflections,
                         SeedIds)]_vars

\* The statistics incremental appends of the entries of appended produce.
StatsOf(appended) ==
  [total_steps |-> Len(appended),
   successful_steps |->
     Cardinality({i \in 1..Len(appended) : appended[i].status = "success"}),
   failed_steps |->
     Cardinality({i \in 1..Len(appended) : appended[i].status = "failed"}),
   tool_usage |->
     [n \in ToolNames |->
        Cardinality({i \in 1..Len(appended) : appended[i].tool_name = n})]]

ViewOf(i) ==
  IF event_loop.running = i THEN Owned ELSE event_loop.suspended[1]

\* C24: two runs on distinct orchestrators do not interfere: whatever the
\* interleaving at the awaits, the state of a run (history, statistics,
\* summary, locals) changes only by steps of that run, each of them a step
\* of the run executing alone, and is left as it was by every step of the
\* other run and by every switch.
C24_RunsDoNotInterfere ==
  [][\A i \in {1, 2} :
       \/ ViewOf(i)' = ViewOf(i)
       \/ /\ event_loop.running = i
          /\ event_loop'.running = i
          /\ Next]_vars

\* Both runs are under way: one is suspended at its tool call with a record
\* appended, the other one has appended a record and waits for the
\* reflection.
C24_Witness ==
  /\ event_loop.running = 2
  /\ pc = "reflect"
  /\ Len(log) = 1
  /\ event_loop.suspended[1].pc = "execute"
  /\ Len(event_loop.suspended[1].log) = 1
  /\ event_loop.suspended[1].history # history

\* The success rate after the usages of outcomes, taken in the order order,
\* were recorded one after the other on a fresh entry.
RECURSIVE RateAfter(_, _, _)
RateAfter(outcomes, order, k) ==
  IF k = 0 THEN ZeroRate
  ELSE PlusTenths(TimesTenths(RateAfter(outcomes, order, k - 1), 7),
                  IF outcomes[order[k]] THEN 3 ELSE 0)

\* C23: no update of a shared library is lost: whenever no call of
\* update_reflection is under way, the n calls issued so far by the
\* interleaved coroutines have raised the entry's usage count by n and
\* left the success rate n moving-average updates give in some order.
C23_NoLostUpdate ==
  (call.op = "await" /\ event_loop.suspended[1].op = "await") =>
    LET entry == EntryOf(reflection_library.reflections, SharedEntryId)
        n == Len(event_loop.issued)
    IN /\ entry.usage_count = n
       /\ \E order \in Permutations(1..n) :
            entry.success_rate = RateAfter(event_loop.issued, order, n)
       /\ (reflection_library.enable_persistence /\ n > 0) =>
            storage.reflections =
              JsonFile(ReflectionsDocument(reflection_library.reflections))

\* Three calls were issued, by both coroutines in turn, with different
\* outcomes, and all have returned.
C23_Witness ==
  /\ call.op = "await"
  /\ event_loop.suspended[1].op = "await"
  /\ event_loop.issued = <<TRUE, FALSE, TRUE>>
  /\ event_loop.running = 2
  /\ EntryOf(reflection_library.reflections, SharedEntryId).usage_count = 3

\* The atom a of a response, lower-cased, is the word w.
IsWord(a, w) == LowerAtom(a) = w

\* json.loads rejected what _parse_decision handed to it.
ParsingFailed(c) == JsonStr(c.response) = Malformed

Unmarked(entry) ==
  /\ entry.observation # NonText
  /\ ~ContainsAny(Lower(entry.reflection), stop_keywords)
  /\ ~ContainsAny(Lower(entry.observation), stop_keywords)
  /\ ~ContainsAny(Lower(entry.reflection), continue_keywords)

\* Some atom of the text is, in lower case, one of the five indicators.
HasErrorIndicator(text) ==
  \E i \in 1..Len(text) :
    LowerAtom(text[i]) \in {"error", "zh_error", "zh_fail", "exception", "failed"}

\* C32: for a step whose reflection and observation carry no completion
\* marker and whose reflection carries no continuation marker, the run goes
\* on to the next loop test exactly when the observation contains an error
\* indicator; otherwise it ends with that observation as final answer,
\* whatever the recorded status of the step.
C32_DefaultByErrorIndicator ==
  [][ (pc = "continue" /\ pc' # "continue" /\ Unmarked(Last(history)))
      => IF HasErrorIndicator(Last(history).observation)
           THEN pc' = LoopHead /\ final_answer' = final_answer
           ELSE /\ pc' = "summary"
                /\ exit' = "reflector_stop"
                /\ final_answer' = Last(history).observation ]_vars

\* A failed step with no marker and no error indicator ended the run, and
\* its observation was returned as the final answer.
C32_Witness ==
  /\ Returned
  /\ exit = "reflector_stop"
  /\ Last(log).status = "failed"
  /\ Unmarked(Last(log))
  /\ ~HasErrorIndicator(Last(log).observation)
  /\ summary[1].final_answer = Last(log).observation

\* A step with no marker and an error indicator was followed by a further
\* decision.
C32_ContinuedOnIndicator ==
  /\ Len(log) >= 2
  /\ Unmarked(log[1])
  /\ log[1].reflection # None
  /\ HasErrorIndicator(log[1].observation)

\* The same on direct calls of should_continue.
C32_DirectCalls ==
  ( /\ call.op = "should_continue"
    /\ Unmarked([reflection |-> call.reflection,
                 observation |-> call.observation]) )
  => call.result = HasErrorIndicator(call.observation)

\* C33: when a run starts the store is empty: no history, counter 0, every
\* statistic and every per-tool count 0. A second run on the same
\* orchestrator therefore reports only its own steps, and when it stops on
\* the step budget or on repeated records, the steps and the records are
\* its own.
C33_StartTaskResets ==
  [][ /\ runs' = runs + 1 =>
           /\ history' = << >>
           /\ current_step' = 0
           /\ stats'.total_steps = 0
           /\ stats'.successful_steps = 0
           /\ stats'.failed_steps = 0
           /\ \A n \in DOMAIN stats'.tool_usage : stats'.tool_usage[n] = 0
      /\ (runs' = 2 /\ exit' = "step_budget") => Len(log') >= config.max_steps
      /\ (runs' = 2 /\ exit' = "loop_detected") => LoopSeen(log')
      /\ (runs' = 2 /\ Returned') =>
           /\ summary'[1].total_steps = Len(log')
           /\ summary'[1].successful_steps + summary'[1].failed_steps = Len(log')
           /\ \A i \in 1..Len(summary'[1].history) :
                \E j \in 1..Len(log') :
                  /\ summary'[1].history[i].step_number = j
                  /\ summary'[1].history[i].observation = log'[j].observation
    ]_vars

\* The second run of an orchestrator returned after using its whole step
\* budget of two steps.
C33_Witness ==
  /\ runs = 2
  /\ Returned
  /\ config.max_steps = 2
  /\ exit = "step_budget"
  /\ Len(log) = 2
  /\ summary[1].total_steps = 2

\* The text starts with one of the reflector's answers.
StartsWithReflectorText(text) ==
  \E r \in ReflectionTexts :
    /\ Len(text) >= Len(r)
    /\ SubSeq(text, 1, Len(r)) = r

\* C34: the library only adds text to the reflection of a failed step. The
\* reflection attached to a successful step is exactly the reflector's
\* text; the one attached to a failed step starts with the reflector's
\* text; and attaching it changes neither the step's status and other
\* fields, nor the statistics, nor the consecutive-failure counter, nor the
\* library.
C34_LibraryOnlyAppends ==
  [][ pc = "reflect" =>
        LET old == Last(log)
            new == Last(log')
        IN /\ Len(log') = Len(log)
           /\ [new EXCEPT !.reflection = None] = [old EXCEPT !.reflection = None]
           /\ Last(history') = new
           /\ old.status = "success" => new.reflection \in ReflectionTexts
           /\ old.status # "success" => StartsWithReflectorText(new.reflection)
           /\ stats' = stats
           /\ consecutive_failures' = consecutive_failures
           /\ current_step' = current_step
           /\ reflection_library' = reflection_library ]_vars

\* A successful step whose output matches a stored entry of the library
\* has the reflector's text alone as reflection, and a failed step of the
\* same run has the library's advice after the reflector's text.
C34_Witness ==
  /\ reflection_library = CustomLibrary
  /\ Len(log) >= 2
  /\ log[1].status = "success"
  /\ log[1].observation = <<"42">>
  /\ log[1].reflection \in ReflectionTexts
  /\ log[2].status = "failed"
  /\ log[2].reflection # None
  /\ log[2].reflection \notin ReflectionTexts
  /\ Contains(log[2].reflection, <<"zh_history_advice">>)

\* The keys of the document a file holds.
SavedIds(file) ==
  IF file.kind = "json"
    THEN {file.data[i].key : i \in 1..Len(file.data)}
    ELSE {}

\* C35: no save triggered by add, by a recorded use or by cleanup writes an
\* entry with a built-in identifier to reflexion_reflections.json, whether
\* or not the file existed when the library was constructed.
C35_SeedsNotPersisted ==
  [][ (reflection_library.present /\ reflection_library.enable_persistence
         /\ call'.op \in {"add_reflection", "update_reflection",
                          "cleanup_low_quality"})
        => SavedIds(storage'.reflections) \cap SeedIds = {} ]_vars

\* The sum of the per-tool usage counts.
RECURSIVE UsageSum(_, _)
UsageSum(tool_usage, names) ==
  IF names = {} THEN 0
  ELSE LET n == CHOOSE x \in names : TRUE
       IN tool_usage[n] + UsageSum(tool_usage, names \ {n})

\* C36: the statistics agree with the appended steps: total_steps is the
\* step counter and the number of appended records, successful and failed
\* steps add up to the total and count the records of each status, the
\* per-tool counts add up to the number of records that carry a tool name,
\* and every failed record has an observation that is not null.
C36_StatsMatchAppends ==
  /\ stats.total_steps = current_step
  /\ stats.total_steps = Len(log)
  /\ stats.successful_steps + stats.failed_steps = stats.total_steps
  /\ stats.successful_steps =
       Cardinality({i \in 1..Len(log) : log[i].status = "success"})
  /\ stats.failed_steps =
       Cardinality({i \in 1..Len(log) : log[i].status = "failed"})
  /\ UsageSum(stats.tool_usage, DOMAIN stats.tool_usage) =
       Cardinality({i \in 1..Len(log) : log[i].tool_name # NullName})
  /\ \A i \in 1..Len(log) :
       log[i].status = "failed" => log[i].observation # None
  /\ \A i \in 1..Len(history) :
       history[i].status = "failed" => history[i].observation # None

\* Three steps were appended: a successful one, a failed one of a tool
\* outside the catalog, and a failed one without a tool name.
C36_Witness ==
  /\ Len(log) = 3
  /\ stats.total_steps = 3
  /\ \E i, j, k \in 1..3 :
       /\ log[i].status = "success"
       /\ log[j].status = "failed" /\ log[j].tool_name = "ghost"
       /\ log[k].status = "failed" /\ log[k].tool_name = NullName
  /\ stats.tool_usage["search"] + stats.tool_usage["ghost"] = 2

\* The reviews of `reviews` that passed.
PassedReviews(reviews) == {i \in 1..Len(reviews) : reviews[i].passed}

\* C37: CollaborativeAgents.run never executes or reviews more than
\* max_iterations times, and what it returns has: iterations equal to the
\* number of executions and to the number of reviews, no review passed
\* before the last one, success exactly when a review passed, the final
\* result then being the execution result of that iteration, and
\* max_iterations iterations when none passed.
C37_BoundedExecuteReview ==
  call.op = "CollaborativeAgents.run" =>
    /\ call.executions <= call.max_iterations
    /\ call.review_calls <= call.executions
    /\ call.pc = "done" =>
         LET r == call.result[1]
             passed == PassedReviews(r.reviews)
         IN /\ r.iterations = call.executions
            /\ r.iterations = call.review_calls
            /\ r.iterations = Len(r.reviews)
            /\ r.iterations <= call.max_iterations
            /\ passed \subseteq {r.iterations}
            /\ r.success = (passed # {})
            /\ r.success => r.final_result = <<r.execution_history[r.iterations]>>
            /\ ~r.success => /\ r.final_result = << >>
                             /\ r.iterations = call.max_iterations

\* A run of three allowed iterations returned after the second, whose
\* review passed although its execution had failed.
C37_Witness ==
  /\ call.op = "CollaborativeAgents.run"
  /\ call.pc = "done"
  /\ call.max_iterations = 3
  /\ call.result[1].iterations = 2
  /\ call.result[1].success
  /\ ~call.result[1].final_result[1].success
  /\ ~call.result[1].reviews[1].passed

\* A run returned without success after max_iterations >= 1 iterations.
C37_Exhausted ==
  /\ call.op = "CollaborativeAgents.run"
  /\ call.pc = "done"
  /\ call.max_iterations >= 1
  /\ call.result[1].iterations = call.max_iterations
  /\ ~call.result[1].success

\* C38: with early_stop_threshold >= 1 the summary has success = false
\* exactly when the loop was left because the consecutive-failure counter
\* reached the threshold; a run that ended on the step budget or on
\* detected repetition has success = true and a null final answer, however
\* many of its steps failed.
C38_SuccessFlag ==
  (Returned /\ config.early_stop_threshold >= 1) =>
    /\ (summary[1].success = FALSE) <=> (exit = "consecutive_failures")
    /\ (exit = "consecutive_failures") <=>
         (Len(log) >= 1 /\ TrailingFailures(log) >= config.early_stop_threshold)
    /\ exit \in {"step_budget", "loop_detected"} =>
         /\ summary[1].success = TRUE
         /\ summary[1].final_answer = None

\* A run of three steps, two of them failed and the last one failed, ended
\* on the step budget and reports success.
C38_Witness ==
  /\ Returned
  /\ config.early_stop_threshold = 2
  /\ exit = "step_budget"
  /\ Len(log) = 3
  /\ summary[1].failed_steps = 2
  /\ Last(log).status = "failed"
  /\ summary[1].success = TRUE
  /\ summary[1].final_answer = None

\* A run ended on detected repetition and reports success.
C38_LoopDetected ==
  /\ Returned
  /\ config.early_stop_threshold >= 1
  /\ exit = "loop_detected"
  /\ summary[1].success = TRUE

\* C39: no step of a run changes the library: its stored entries, their
\* usage counts and success rates, and its file are after every step what
\* they were before it, and so after run() what they were before.
C39_RunLeavesLibrary ==
  [][ /\ reflection_library' = reflection_library
      /\ storage'.reflections = storage.reflections ]_vars

\* A run returned after the library's advice for a failed step was attached
\* to the step, and no entry of the library has a recorded use.
C39_Witness ==
  /\ Returned
  /\ LibraryTruthy(reflection_library)
  /\ \E i \in 1..Len(log) :
       /\ log[i].status = "failed"
       /\ log[i].reflection # None
       /\ Contains(log[i].reflection, <<"zh_history_advice">>)
  /\ \A i \in 1..Len(reflection_library.reflections) :
       /\ reflection_library.reflections[i].usage_count = 0
       /\ reflection_library.reflections[i].success_rate = ZeroRate

\* The names listed under some category of the registry.
ListedNames(registry) ==
  UNION { {registry._categories[i].value[j] :
             j \in 1..Len(registry._categories[i].value)} :
          i \in 1..Len(registry._categories) }

\* C40: under every sequence of register and unregister calls, a register
\* of a registered name raises and changes nothing, an unregister of a name
\* that is not registered returns false and changes nothing, the tools and
\* the metadata have the same keys, and every name listed under a category
\* is a registered tool.
C40_RegistryConsistent ==
  [][ call'.op \in {"register", "unregister"} =>
        /\ KeySet(call'.registry._tools) = KeySet(call'.registry._metadata)
        /\ ListedNames(call'.registry) \subseteq KeySet(call'.registry._tools)
        /\ (call'.op = "register"
              /\ call'.name \in KeySet(call.registry._tools))
             => /\ call'.raised
                /\ call'.registry = call.registry
        /\ (call'.op = "register"
              /\ call'.name \notin KeySet(call.registry._tools))
             => /\ ~call'.raised
                /\ call'.name \in KeySet(call'.registry._tools)
        /\ (call'.op = "unregister"
              /\ call'.name \notin KeySet(call.registry._tools))
             => /\ call'.result = FALSE
                /\ call'.registry = call.registry
        /\ (call'.op = "unregister"
              /\ call'.name \in KeySet(call.registry._tools))
             => /\ call'.result = TRUE
                /\ call'.name \notin KeySet(call'.registry._tools)
    ]_vars

\* After a refused register and a refused unregister, a tool was
\* unregistered while another one stays registered and listed, and the
\* category of the removed tool is left with an empty list.
C40_Witness ==
  /\ call.op = "unregister"
  /\ call.result = TRUE
  /\ call.refused = {"register", "unregister"}
  /\ KeySet(call.registry._tools) = {"calc"}
  /\ ListedNames(call.registry) = {"calc"}
  /\ \E i \in 1..Len(call.registry._categories) :
       call.registry._categories[i].value = << >>

====
